---- MODULE Spec2Model ----
(***************************************************************************)
(* Trend store (src/src/database/trends_db.py), coin performance ledger    *)
(* (src/src/database/coin_performance_db.py) and pump.fun match engine     *)
(* (src/src/monitor/pumpfun.py) of the personal-assistant repository.      *)
(*                                                                         *)
(* Strings are sequences of one-character strings, so that lower-casing,   *)
(* cleaning and the similarity ratios are computed rather than assumed.    *)
(***************************************************************************)
EXTENDS Integers, Sequences, FiniteSets, TLC

VARIABLES
    db,               \* the persisted trends.json document {trends, matched_coins}
    now,              \* the wall clock read by datetime.now()
    last,             \* the most recent step: the call, what it returned and did
    seen_coins,       \* PumpFunMonitor.seen_coins
    running,          \* PumpFunMonitor.running
    MATCH_THRESHOLD,  \* PumpFunMonitor.MATCH_THRESHOLD (instance value)
    task,             \* one record per invocation of PumpFunMonitor.start()
    on_match,         \* PumpFunMonitor.on_match is set (TRUE) or None (FALSE)
    HELIUS_API_KEY,   \* config.HELIUS_API_KEY: "set", "empty", or "absent"
    fm_calls,         \* per address: runs of _find_match by the engine
    rm_calls,         \* per address: record_match calls issued by the engine
    cb_calls,         \* per address: on_match invocations
    coin_db,          \* the persisted coin_performance.json document {coins, meta_analysis}
    peer              \* a second PumpFunMonitor, constructed on the same TrendsDB

vars == <<db, now, last, seen_coins, running, MATCH_THRESHOLD, task,
          on_match, HELIUS_API_KEY, fm_calls, rm_calls, cb_calls, coin_db, peer>>

calls == <<fm_calls, rm_calls, cb_calls>>
engine_vars == <<seen_coins, running, MATCH_THRESHOLD, task, calls>>
config_vars == <<on_match, HELIUS_API_KEY>>

-----------------------------------------------------------------------------
(* Bounds of the model *)

MaxTime == 3        \* readings of datetime.now() (timestamped mutations)
MaxLoops == 2       \* invocations of start()
MaxBatch == 2       \* entities in one feed response
MaxCoins == 4       \* readings of datetime.now() by add_coin
MaxText == 3        \* characters of a text given to a parser

NoStamp == 0        \* a timestamp key that the record does not have

-----------------------------------------------------------------------------
(* Strings *)

\* str.lower() on one character of the model's alphabet
LowerChar(c) ==
    CASE c = "A" -> "a"
      [] c = "B" -> "b"
      [] c = "C" -> "c"
      [] c = "D" -> "d"
      [] c = "H" -> "h"
      [] c = "I" -> "i"
      [] c = "K" -> "k"
      [] c = "M" -> "m"
      [] c = "T" -> "t"
      [] OTHER -> c

\* str.lower()
Lower(s) == [k \in 1..Len(s) |-> LowerChar(s[k])]

\* the characters kept by re.sub(r'[^a-zA-Z0-9\s]', '', text)
IsAlnum(c) == c \in {"a", "b", "c", "i", "t", "A", "B", "C", "I", "T"}
IsSpace(c) == c = " "

\* code-point order of the cleaned (lower-case) characters
Ord(c) ==
    CASE c = " " -> 32
      [] c = "a" -> 97
      [] c = "b" -> 98
      [] c = "c" -> 99
      [] c = "i" -> 105
      [] c = "t" -> 116
      [] OTHER -> 0

RECURSIVE StrLess(_, _)
StrLess(a, b) ==
    IF b = <<>> THEN FALSE
    ELSE IF a = <<>> THEN TRUE
    ELSE IF Ord(a[1]) # Ord(b[1]) THEN Ord(a[1]) < Ord(b[1])
    ELSE StrLess(Tail(a), Tail(b))

\* str.split(): the maximal runs of non-space characters
RECURSIVE Split(_, _, _)
Split(s, k, word) ==
    IF k > Len(s) THEN (IF word = <<>> THEN <<>> ELSE <<word>>)
    ELSE IF IsSpace(s[k])
         THEN (IF word = <<>> THEN <<>> ELSE <<word>>) \o Split(s, k + 1, <<>>)
         ELSE Split(s, k + 1, Append(word, s[k]))

\* ' '.join(words)
RECURSIVE Join(_)
Join(words) ==
    IF words = <<>> THEN <<>>
    ELSE IF Len(words) = 1 THEN words[1]
    ELSE words[1] \o <<" ">> \o Join(Tail(words))

\* sorted(words)
RECURSIVE Insert(_, _)
Insert(w, sorted) ==
    IF sorted = <<>> THEN <<w>>
    ELSE IF StrLess(sorted[1], w) THEN <<sorted[1]>> \o Insert(w, Tail(sorted))
    ELSE <<w>> \o sorted

RECURSIVE SortWords(_)
SortWords(words) ==
    IF words = <<>> THEN <<>> ELSE Insert(words[1], SortWords(Tail(words)))

_clean_for_matching(text) ==
    LET cleaned == SelectSeq(text, LAMBDA c : IsAlnum(c) \/ IsSpace(c))
    IN  Lower(Join(Split(cleaned, 1, <<>>)))

\* a containment test that holds of equal strings only
IsWholeString(a, b) == a = b

\* a in b for strings: a is a contiguous substring of b
IsSubstring(a, b) ==
    \E k \in 0..(Len(b) - Len(a)) : SubSeq(b, k + 1, k + Len(a)) = a

-----------------------------------------------------------------------------
(* rapidfuzz.fuzz: the similarity ratios are the normalized Indel           *)
(* similarity, 100 * 2 * LCS / (len1 + len2).  A score is kept as the exact *)
(* fraction num / den, so that comparisons are those of the float values.   *)

RECURSIVE LCS(_, _)
LCS(a, b) ==
    IF a = <<>> \/ b = <<>> THEN 0
    ELSE IF a[1] = b[1] THEN 1 + LCS(Tail(a), Tail(b))
    ELSE LET x == LCS(Tail(a), b)
             y == LCS(a, Tail(b))
         IN  IF x > y THEN x ELSE y

Score(n) == [num |-> n, den |-> 1]
ScoreGe(x, y) == x.num * y.den >= y.num * x.den
ScoreGt(x, y) == x.num * y.den > y.num * x.den

\* fuzz.ratio
Ratio(a, b) ==
    IF Len(a) + Len(b) = 0 THEN Score(100)
    ELSE [num |-> 200 * LCS(a, b), den |-> Len(a) + Len(b)]

\* fuzz.token_sort_ratio
TokenSortRatio(a, b) ==
    Ratio(Join(SortWords(Split(a, 1, <<>>))), Join(SortWords(Split(b, 1, <<>>))))

\* the windows of the longer string that fuzz.partial_ratio aligns the
\* shorter one with: every substring of the shorter one's length, and the
\* shorter prefixes and suffixes
Windows(long, m) ==
    {SubSeq(long, k, k + m - 1) : k \in 1..(Len(long) - m + 1)}
    \cup {SubSeq(long, 1, k) : k \in 1..(m - 1)}
    \cup {SubSeq(long, Len(long) - k + 1, Len(long)) : k \in 1..(m - 1)}

BestOf(scores) ==
    CHOOSE x \in scores : \A y \in scores : ScoreGe(x, y)

\* fuzz.partial_ratio
PartialRatio(a, b) ==
    LET short == IF Len(a) <= Len(b) THEN a ELSE b
        long == IF Len(a) <= Len(b) THEN b ELSE a
    IN  IF Len(short) = 0 THEN (IF Len(long) = 0 THEN Score(100) ELSE Score(0))
        ELSE BestOf({Ratio(short, w) : w \in Windows(long, Len(short))})


-----------------------------------------------------------------------------
(* TrendsDB: the operations as functions of the loaded document.  Each      *)
(* returns the document it saves (or the one it loaded, when it does not    *)
(* save) and the value it returns to the caller.                            *)

EmptyDb == [trends |-> <<>>, matched_coins |-> <<>>]

Ids(d) == {d.trends[k].id : k \in 1..Len(d.trends)}

\* the first index of a trend with this id, 0 when there is none
RECURSIVE FirstWithId(_, _, _)
FirstWithId(trends, trend_id, k) ==
    IF k > Len(trends) THEN 0
    ELSE IF trends[k].id = trend_id THEN k
    ELSE FirstWithId(trends, trend_id, k + 1)

\* a duplicate check that compares the keywords as they are written, which
\* is not the check of add_trend
RECURSIVE FirstDuplicateExact(_, _, _)
FirstDuplicateExact(trends, keyword, k) ==
    IF k > Len(trends) THEN 0
    ELSE IF trends[k].keyword = keyword THEN k
    ELSE FirstDuplicateExact(trends, keyword, k + 1)

\* a duplicate check that passes over the deactivated trends
RECURSIVE FirstDuplicateActive(_, _, _)
FirstDuplicateActive(trends, keyword, k) ==
    IF k > Len(trends) THEN 0
    ELSE IF trends[k].active /\ Lower(trends[k].keyword) = Lower(keyword) THEN k
    ELSE FirstDuplicateActive(trends, keyword, k + 1)

\* the first index of a trend whose keyword equals this one case-insensitively
RECURSIVE FirstDuplicate(_, _, _)
FirstDuplicate(trends, keyword, k) ==
    IF k > Len(trends) THEN 0
    ELSE IF Lower(trends[k].keyword) = Lower(keyword) THEN k
    ELSE FirstDuplicate(trends, keyword, k + 1)

Clamp(priority) ==
    LET lo == IF priority > 1 THEN priority ELSE 1
    IN  IF lo < 5 THEN lo ELSE 5

NewId(d) == Len(d.trends) + 1

\* an add_trend that saves the trend list into a document it had loaded
\* before any match was logged, so that the log on disk is overwritten
add_trend_stale(d, keyword, description, source, aliases, priority, t) ==
    LET dup == FirstDuplicate(d.trends, keyword, 1)
        trend == [id |-> NewId(d),
                  keyword |-> keyword,
                  description |-> description,
                  source |-> source,
                  aliases |-> aliases,
                  priority |-> Clamp(priority),
                  created_at |-> t,
                  active |-> TRUE,
                  match_count |-> 0,
                  updated_at |-> NoStamp]
    IN  IF dup # 0
        THEN [db |-> d, saved |-> FALSE,
              ret |-> [error |-> TRUE, existing |-> d.trends[dup]]]
        ELSE [db |-> [trends |-> Append(d.trends, trend), matched_coins |-> <<>>],
              saved |-> TRUE,
              ret |-> [error |-> FALSE, existing |-> trend]]

add_trend(d, keyword, description, source, aliases, priority, t) ==
    LET dup == FirstDuplicate(d.trends, keyword, 1)
        trend == [id |-> NewId(d),
                  keyword |-> keyword,
                  description |-> description,
                  source |-> source,
                  aliases |-> aliases,
                  priority |-> Clamp(priority),
                  created_at |-> t,
                  active |-> TRUE,
                  match_count |-> 0,
                  updated_at |-> NoStamp]
    IN  IF dup # 0
        THEN [db |-> d, saved |-> FALSE,
              ret |-> [error |-> TRUE, existing |-> d.trends[dup]]]
        ELSE [db |-> [d EXCEPT !.trends = Append(@, trend)], saved |-> TRUE,
              ret |-> [error |-> FALSE, existing |-> trend]]

\* an update that stores every supplied key, known to the record or not
ApplyKwargsAll(trend, kwargs) ==
    [f \in DOMAIN trend \cup DOMAIN kwargs |->
        IF f \in DOMAIN kwargs THEN kwargs[f] ELSE trend[f]]

\* update_trend(trend_id, **kwargs): kwargs is a record of the supplied keys
ApplyKwargs(trend, kwargs) ==
    [f \in DOMAIN trend |->
        IF f \in DOMAIN kwargs /\ ~(f = "updated_at" /\ trend.updated_at = NoStamp)
        THEN kwargs[f] ELSE trend[f]]

update_trend(d, trend_id, kwargs, t) ==
    LET k == FirstWithId(d.trends, trend_id, 1)
    IN  IF k = 0
        THEN [db |-> d, saved |-> FALSE, ret |-> [found |-> FALSE]]
        ELSE LET trend == [ApplyKwargs(d.trends[k], kwargs) EXCEPT !.updated_at = t]
             IN  [db |-> [d EXCEPT !.trends[k] = trend], saved |-> TRUE,
                  ret |-> [found |-> TRUE, trend |-> trend]]

deactivate_trend(d, trend_id, t) ==
    LET r == update_trend(d, trend_id, [active |-> FALSE], t)
    IN  [db |-> r.db, saved |-> r.saved, ret |-> r.ret.found]

\* a deletion that also drops the log entries of the trend, which
\* delete_trend does not do
delete_trend_cascade(d, trend_id) ==
    LET kept == SelectSeq(d.trends, LAMBDA x : x.id # trend_id)
    IN  IF Len(kept) < Len(d.trends)
        THEN [db |-> [trends |-> kept,
                      matched_coins |-> SelectSeq(d.matched_coins,
                                                  LAMBDA e : e.trend_id # trend_id)],
              saved |-> TRUE, ret |-> TRUE]
        ELSE [db |-> d, saved |-> FALSE, ret |-> FALSE]

delete_trend(d, trend_id) ==
    LET kept == SelectSeq(d.trends, LAMBDA x : x.id # trend_id)
    IN  IF Len(kept) < Len(d.trends)
        THEN [db |-> [d EXCEPT !.trends = kept], saved |-> TRUE, ret |-> TRUE]
        ELSE [db |-> d, saved |-> FALSE, ret |-> FALSE]

record_match(d, trend_id, coin_name, coin_address, matched_keyword, t) ==
    LET k == FirstWithId(d.trends, trend_id, 1)
        counted == IF k = 0 THEN d.trends
                   ELSE [d.trends EXCEPT ![k].match_count = @ + 1]
        match_record == [trend_id |-> trend_id,
                         coin_name |-> coin_name,
                         coin_address |-> coin_address,
                         matched_keyword |-> matched_keyword,
                         matched_at |-> t]
    IN  [db |-> [trends |-> counted,
                 matched_coins |-> Append(d.matched_coins, match_record)],
         saved |-> TRUE, ret |-> match_record]

\* an insertion that puts a trend before those of its own priority
RECURSIVE InsertBeforeEqual(_, _)
InsertBeforeEqual(x, sorted) ==
    IF sorted = <<>> THEN <<x>>
    ELSE IF sorted[1].priority > x.priority
         THEN <<sorted[1]>> \o InsertBeforeEqual(x, Tail(sorted))
         ELSE <<x>> \o sorted

\* sorted(trends, key=lambda x: -x["priority"]): a stable sort
RECURSIVE InsertByPriority(_, _)
InsertByPriority(x, sorted) ==
    IF sorted = <<>> THEN <<x>>
    ELSE IF sorted[1].priority >= x.priority
         THEN <<sorted[1]>> \o InsertByPriority(x, Tail(sorted))
         ELSE <<x>> \o sorted

RECURSIVE SortByPriority(_)
SortByPriority(trends) ==
    IF trends = <<>> THEN <<>>
    ELSE InsertByPriority(trends[Len(trends)],
                          SortByPriority(SubSeq(trends, 1, Len(trends) - 1)))

get_all_trends(d, active_only) ==
    SortByPriority(IF active_only
                   THEN SelectSeq(d.trends, LAMBDA x : x.active)
                   ELSE d.trends)

\* a dict assignment that keeps the value a key already has
DictSetFirst(mapping, key, trend) ==
    IF \E k \in 1..Len(mapping) : mapping[k].key = key
    THEN mapping
    ELSE Append(mapping, [key |-> key, trend |-> trend])

\* mapping[key] = trend on an insertion-ordered dict, kept as a sequence of
\* entries: an existing key keeps its place and takes the new value
DictSet(mapping, key, trend) ==
    IF \E k \in 1..Len(mapping) : mapping[k].key = key
    THEN [k \in 1..Len(mapping) |->
            IF mapping[k].key = key THEN [key |-> key, trend |-> trend]
            ELSE mapping[k]]
    ELSE Append(mapping, [key |-> key, trend |-> trend])

RECURSIVE MapAliases(_, _, _)
MapAliases(mapping, trend, k) ==
    IF k > Len(trend.aliases) THEN mapping
    ELSE MapAliases(DictSet(mapping, Lower(trend.aliases[k]), trend), trend, k + 1)

RECURSIVE MapTrends(_, _, _)
MapTrends(mapping, trends, k) ==
    IF k > Len(trends) THEN mapping
    ELSE MapTrends(MapAliases(DictSet(mapping, Lower(trends[k].keyword), trends[k]),
                              trends[k], 1),
                   trends, k + 1)

\* keywords.append(trend["keyword"]); keywords.extend(trend["aliases"])
RECURSIVE Flatten(_, _)
Flatten(trends, k) ==
    IF k > Len(trends) THEN <<>>
    ELSE <<trends[k].keyword>> \o trends[k].aliases \o Flatten(trends, k + 1)

get_all_keywords(d) == Flatten(get_all_trends(d, TRUE), 1)

get_keyword_to_trend_map(d) == MapTrends(<<>>, get_all_trends(d, TRUE), 1)

\* the condition of search_trends on one trend
Mentions(trend, query_lower) ==
    \/ IsSubstring(query_lower, Lower(trend.keyword))
    \/ IsSubstring(query_lower, Lower(trend.description))
    \/ \E k \in 1..Len(trend.aliases) : IsSubstring(query_lower, Lower(trend.aliases[k]))

\* a search that looks at the active trends only
search_active_trends(d, query) ==
    SelectSeq(get_all_trends(d, TRUE), LAMBDA trend : Mentions(trend, Lower(query)))

search_trends(d, query) ==
    SelectSeq(get_all_trends(d, FALSE), LAMBDA trend : Mentions(trend, Lower(query)))

-----------------------------------------------------------------------------
(* PumpFunMonitor._find_match *)

NoMatch == [hit |-> FALSE]
Match(entry, score) ==
    [hit |-> TRUE, trend |-> entry.trend, keyword |-> entry.key, score |-> score]

BestScore(best) == IF best.hit THEN best.score ELSE Score(0)

\* a comparison in which an equal score replaces the best match
BetterOrEqual(entry, score, bar, best) ==
    IF ScoreGe(score, Score(bar)) /\ ScoreGe(score, BestScore(best))
    THEN [hit |-> TRUE, trend |-> entry.trend, keyword |-> entry.key, score |-> score]
    ELSE best

\* if score >= bar and score > best_score: the entry becomes the best match
Better(entry, score, bar, best) ==
    IF ScoreGe(score, Score(bar)) /\ ScoreGt(score, BestScore(best))
    THEN Match(entry, score) ELSE best

\* the strategies as a chain in which the partial ratio is looked at only
\* when the token sort ratio is below the threshold
StrategiesFirst(entry, keyword_clean, coin_name_clean, coin_symbol_lower, threshold, best) ==
    IF IsSubstring(keyword_clean, coin_name_clean)
       \/ IsSubstring(coin_name_clean, keyword_clean)
    THEN Better(entry, Score(95), 0, best)
    ELSE IF keyword_clean = coin_symbol_lower
    THEN Better(entry, Score(90), 0, best)
    ELSE IF ScoreGe(TokenSortRatio(keyword_clean, coin_name_clean), Score(threshold))
    THEN Better(entry, TokenSortRatio(keyword_clean, coin_name_clean), threshold, best)
    ELSE Better(entry, PartialRatio(keyword_clean, coin_name_clean), threshold + 10, best)

\* the four strategies on the cleaned keyword of the map entry
Strategies(entry, keyword_clean, coin_name_clean, coin_symbol_lower, threshold, best) ==
    IF IsSubstring(keyword_clean, coin_name_clean)
       \/ IsSubstring(coin_name_clean, keyword_clean)
    THEN Better(entry, Score(95), 0, best)
    ELSE IF keyword_clean = coin_symbol_lower
    THEN Better(entry, Score(90), 0, best)
    ELSE Better(entry, PartialRatio(keyword_clean, coin_name_clean), threshold + 10,
                Better(entry, TokenSortRatio(keyword_clean, coin_name_clean),
                       threshold, best))

\* one pass of the loop body for the map entry, given the best so far
ScoreKeyword(entry, coin_name_clean, coin_symbol_lower, threshold, best) ==
    Strategies(entry, _clean_for_matching(entry.key), coin_name_clean,
               coin_symbol_lower, threshold, best)

RECURSIVE ScanKeywords(_, _, _, _, _, _)
ScanKeywords(keyword_map, k, coin_name_clean, coin_symbol_lower, threshold, best) ==
    IF k > Len(keyword_map) THEN best
    ELSE ScanKeywords(keyword_map, k + 1, coin_name_clean, coin_symbol_lower, threshold,
                      ScoreKeyword(keyword_map[k], coin_name_clean, coin_symbol_lower,
                                   threshold, best))

_find_match(coin_name, coin_symbol, keyword_map, threshold) ==
    ScanKeywords(keyword_map, 1, _clean_for_matching(coin_name), Lower(coin_symbol),
                 threshold, NoMatch)

-----------------------------------------------------------------------------
(* Numbers of the coin ledger.  A float is kept as the exact fraction       *)
(* num / den in lowest terms; the inputs of the model stay within the       *)
(* values that a float holds exactly.                                       *)

RECURSIVE GCD(_, _)
GCD(a, b) == IF b = 0 THEN a ELSE GCD(b, a % b)

Frac(n, d) == [num |-> n \div GCD(n, d), den |-> d \div GCD(n, d)]
Zero == Frac(0, 1)
FracAdd(x, y) == Frac(x.num * y.den + y.num * x.den, x.den * y.den)
FracTimes(x, k) ==
    [num |-> x.num * (k \div GCD(k, x.den)), den |-> x.den \div GCD(k, x.den)]
FracOver(x, k) ==
    [num |-> x.num \div GCD(x.num, k), den |-> x.den * (k \div GCD(x.num, k))]
FracLt(x, y) == x.num * y.den < y.num * x.den
\* x >= n for a whole number n
AtLeast(x, n) == x.num \div x.den >= n

\* round(x) to the nearest whole number, a tie going to the even one, as
\* the 'f' format rounds a value that the float holds exactly
RoundHalfEven(x) ==
    IF 2 * (x.num % x.den) < x.den THEN x.num \div x.den
    ELSE IF 2 * (x.num % x.den) > x.den THEN x.num \div x.den + 1
    ELSE IF (x.num \div x.den) % 2 = 0 THEN x.num \div x.den
    ELSE x.num \div x.den + 1

DigitChars == <<"0", "1", "2", "3", "4", "5", "6", "7", "8", "9">>
IsDigit(c) == \E k \in 1..10 : DigitChars[k] = c
DigitVal(c) == (CHOOSE k \in 1..10 : DigitChars[k] = c) - 1

\* str(n) for a whole number
RECURSIVE ToDigits(_)
ToDigits(n) ==
    IF n < 10 THEN <<DigitChars[n + 1]>>
    ELSE Append(ToDigits(n \div 10), DigitChars[(n % 10) + 1])

\* f"{x:.0f}" and f"{x:.1f}"
Fixed0(x) == ToDigits(RoundHalfEven(x))
Fixed1(x) ==
    ToDigits(RoundHalfEven(FracTimes(x, 10)) \div 10)
    \o <<".">> \o ToDigits(RoundHalfEven(FracTimes(x, 10)) % 10)

\* str.upper() on one character of the model's alphabet
UpperChar(c) ==
    CASE c = "a" -> "A"
      [] c = "b" -> "B"
      [] c = "c" -> "C"
      [] c = "d" -> "D"
      [] c = "h" -> "H"
      [] c = "i" -> "I"
      [] c = "k" -> "K"
      [] c = "m" -> "M"
      [] c = "t" -> "T"
      [] OTHER -> c

\* str.upper()
Upper(s) == [k \in 1..Len(s) |-> UpperChar(s[k])]

\* str.replace(old, "") for a one-character old
Remove(s, old) == SelectSeq(s, LAMBDA c : c # old)

\* str.replace(" ", "_")
Underscore(s) == [k \in 1..Len(s) |-> IF s[k] = " " THEN "_" ELSE s[k]]

\* str.strip()
RECURSIVE LStrip(_)
LStrip(s) == IF s # <<>> /\ IsSpace(s[1]) THEN LStrip(Tail(s)) ELSE s
RECURSIVE RStrip(_)
RStrip(s) ==
    IF s # <<>> /\ IsSpace(s[Len(s)]) THEN RStrip(SubSeq(s, 1, Len(s) - 1)) ELSE s
Strip(s) == RStrip(LStrip(s))

\* the value of a run of digits
RECURSIVE IntOf(_)
IntOf(digits) ==
    IF digits = <<>> THEN 0
    ELSE 10 * IntOf(SubSeq(digits, 1, Len(digits) - 1)) + DigitVal(digits[Len(digits)])

RECURSIVE Pow10(_)
Pow10(n) == IF n = 0 THEN 1 ELSE 10 * Pow10(n - 1)

\* float(text) accepts, of the model's alphabet: digits with at most one
\* point among them and blanks around them; anything else is a ValueError
IsNumeral(s) ==
    /\ \E k \in 1..Len(s) : IsDigit(s[k])
    /\ \A k \in 1..Len(s) : IsDigit(s[k]) \/ s[k] = "."
    /\ Cardinality({k \in 1..Len(s) : s[k] = "."}) <= 1

\* the number of digits after the point
Decimals(s) ==
    IF \E k \in 1..Len(s) : s[k] = "."
    THEN Len(s) - (CHOOSE k \in 1..Len(s) : s[k] = ".")
    ELSE 0

NumeralValue(s) == Frac(IntOf(SelectSeq(s, IsDigit)), Pow10(Decimals(s)))

FloatOk(text) == IsNumeral(Strip(text))
FloatOf(text) == NumeralValue(Strip(text))

-----------------------------------------------------------------------------
(* CoinPerformanceDB *)

EmptyCoinDb == [coins |-> <<>>, meta_analysis |-> <<>>]

\* the multipliers dict, in its insertion order
Multipliers ==
    << [suffix |-> "K", mult |-> 1000],
       [suffix |-> "M", mult |-> 1000000],
       [suffix |-> "B", mult |-> 1000000000] >>

\* float(text) * mult, or 0 on ValueError
FloatTimesOrZero(text, mult) ==
    IF FloatOk(text) THEN FracTimes(FloatOf(text), mult) ELSE Zero

\* the loop over the suffixes, then the plain number
RECURSIVE ParseSuffixes(_, _)
ParseSuffixes(mcap_str, k) ==
    IF k > Len(Multipliers) THEN FloatTimesOrZero(mcap_str, 1)
    ELSE IF \E j \in 1..Len(mcap_str) : mcap_str[j] = Multipliers[k].suffix
    THEN FloatTimesOrZero(Remove(mcap_str, Multipliers[k].suffix), Multipliers[k].mult)
    ELSE ParseSuffixes(mcap_str, k + 1)

_parse_mcap(mcap_str) ==
    ParseSuffixes(Strip(Remove(Remove(Upper(mcap_str), "$"), ",")), 1)

\* the unit letters of (hour|hr|h|day|d|week|w|min|m); the alternatives of
\* one unit all begin with its one-letter form, which is the last of them
UnitAt(s, p) ==
    IF p > Len(s) THEN "none"
    ELSE IF s[p] \in {"h", "d", "w", "m"} THEN s[p]
    ELSE "none"

\* the position after the longest run of digits (\d*), of blanks (\s*),
\* from position p
RECURSIVE DigitsEnd(_, _)
DigitsEnd(s, p) == IF p <= Len(s) /\ IsDigit(s[p]) THEN DigitsEnd(s, p + 1) ELSE p
RECURSIVE SpacesEnd(_, _)
SpacesEnd(s, p) == IF p <= Len(s) /\ IsSpace(s[p]) THEN SpacesEnd(s, p + 1) ELSE p

IsPoint(c) == c = "."
PointEnd(s, p) == IF p <= Len(s) /\ IsPoint(s[p]) THEN p + 1 ELSE p

\* (\d+\.?\d*) from position i: the position after the group
NumberEnd(s, i) == DigitsEnd(s, PointEnd(s, DigitsEnd(s, i)))

\* the regular expression matches from position i
MatchesAt(s, i) ==
    /\ IsDigit(s[i])
    /\ UnitAt(s, SpacesEnd(s, NumberEnd(s, i))) # "none"

\* re.search: the leftmost position with a match
FirstMatch(s) == CHOOSE i \in 1..Len(s) : MatchesAt(s, i) /\ \A j \in 1..(i - 1) : ~MatchesAt(s, j)

HoursOf(value, unit) ==
    CASE unit = "h" -> value
      [] unit = "d" -> FracTimes(value, 24)
      [] unit = "w" -> FracTimes(value, 24 * 7)
      [] unit = "m" -> FracOver(value, 60)

MatchHours(s, i) ==
    HoursOf(NumeralValue(SubSeq(s, i, NumberEnd(s, i) - 1)),
            UnitAt(s, SpacesEnd(s, NumberEnd(s, i))))

\* re.match in the place of re.search: a match at the start of the text only
SearchHoursLeading(s) ==
    IF s # <<>> /\ MatchesAt(s, 1) THEN MatchHours(s, 1) ELSE Zero

\* re.search, then the conversion of the unit
SearchHours(s) ==
    IF \E i \in 1..Len(s) : MatchesAt(s, i) THEN MatchHours(s, FirstMatch(s)) ELSE Zero

_parse_time_to_hours(time_str) == SearchHours(Strip(Lower(time_str)))

_format_mcap(value) ==
    IF AtLeast(value, 1000000000)
    THEN <<"$">> \o Fixed1(FracOver(value, 1000000000)) \o <<"B">>
    ELSE IF AtLeast(value, 1000000)
    THEN <<"$">> \o Fixed0(FracOver(value, 1000000)) \o <<"M">>
    ELSE IF AtLeast(value, 1000)
    THEN <<"$">> \o Fixed0(FracOver(value, 1000)) \o <<"K">>
    ELSE <<"$">> \o Fixed0(value)

_format_hours(hours) ==
    IF AtLeast(hours, 168)
    THEN Fixed1(FracOver(hours, 168)) \o <<" ", "w", "e", "e", "k", "s">>
    ELSE IF AtLeast(hours, 24)
    THEN Fixed1(FracOver(hours, 24)) \o <<" ", "d", "a", "y", "s">>
    ELSE Fixed0(hours) \o <<" ", "h", "o", "u", "r", "s">>

\* the distinct narratives of the coins, in the order of first appearance
\* (the keys of by_narrative)
RECURSIVE NarrativesOf(_, _, _)
NarrativesOf(coins, k, found) ==
    IF k > Len(coins) THEN found
    ELSE IF \E j \in 1..Len(found) : found[j] = coins[k].narrative
    THEN NarrativesOf(coins, k + 1, found)
    ELSE NarrativesOf(coins, k + 1, Append(found, coins[k].narrative))

\* by_narrative[narrative]
NarrativeCoins(coins, narrative) ==
    SelectSeq(coins, LAMBDA c : c.narrative = narrative)

\* [c[field] for c in narrative_coins if c[field] > 0]
Positive(values) == SelectSeq(values, LAMBDA v : v.num > 0)
McapsOf(narrative_coins) ==
    Positive([k \in 1..Len(narrative_coins) |-> narrative_coins[k].peak_mcap_numeric])
\* the times to peak of all the coins, the unparsed ones (0) too
TimesOfAll(narrative_coins) ==
    [k \in 1..Len(narrative_coins) |-> narrative_coins[k].time_to_peak_hours]

TimesOf(narrative_coins) ==
    Positive([k \in 1..Len(narrative_coins) |-> narrative_coins[k].time_to_peak_hours])

\* sorted(values)
RECURSIVE InsertValue(_, _)
InsertValue(v, sorted) ==
    IF sorted = <<>> THEN <<v>>
    ELSE IF FracLt(v, sorted[1]) THEN <<v>> \o sorted
    ELSE <<sorted[1]>> \o InsertValue(v, Tail(sorted))

RECURSIVE SortValues(_)
SortValues(values) ==
    IF values = <<>> THEN <<>>
    ELSE InsertValue(values[Len(values)], SortValues(SubSeq(values, 1, Len(values) - 1)))

RECURSIVE SumValues(_)
SumValues(values) ==
    IF values = <<>> THEN Zero ELSE FracAdd(values[1], SumValues(Tail(values)))

\* sum(values) / len(values)
Mean(values) == FracOver(SumValues(values), Len(values))

\* the lower of the two middle values of an even number of values
LowerMiddle(sorted) == sorted[(Len(sorted) + 1) \div 2]

\* sorted(mcaps)[len(mcaps) // 2], on the sorted values
Middle(sorted) == sorted[(Len(sorted) \div 2) + 1]

\* the statistics of one narrative with at least one positive peak
Analysis(narrative_coins, mcaps, times) ==
    [count |-> Len(narrative_coins),
     avg_peak_mcap |-> Mean(mcaps),
     min_peak_mcap |-> SortValues(mcaps)[1],
     max_peak_mcap |-> SortValues(mcaps)[Len(mcaps)],
     median_peak_mcap |-> Middle(SortValues(mcaps)),
     avg_time_to_peak_hours |-> IF times # <<>> THEN Mean(times) ELSE Zero,
     suggested_ceiling |-> _format_mcap(Middle(SortValues(mcaps))),
     suggested_hold_time |-> IF times # <<>> THEN _format_hours(Mean(times))
                             ELSE <<"u", "n", "k", "n", "o", "w", "n">>]

\* the loop over by_narrative.items(): analysis is an insertion-ordered
\* dict, kept as a sequence of entries
RECURSIVE Analyse(_, _, _, _)
Analyse(coins, narratives, k, analysis) ==
    IF k > Len(narratives) THEN analysis
    ELSE IF McapsOf(NarrativeCoins(coins, narratives[k])) # <<>>
    THEN Analyse(coins, narratives, k + 1,
                 Append(analysis,
                        [key |-> narratives[k],
                         value |-> Analysis(NarrativeCoins(coins, narratives[k]),
                                            McapsOf(NarrativeCoins(coins, narratives[k])),
                                            TimesOf(NarrativeCoins(coins, narratives[k])))]))
    ELSE Analyse(coins, narratives, k + 1, analysis)

\* _update_meta_analysis on the document just saved
_update_meta_analysis(d) ==
    [d EXCEPT !.meta_analysis = Analyse(d.coins, NarrativesOf(d.coins, 1, <<>>), 1, <<>>)]

NewCoin(d, name, narrative, peak_mcap, time_to_peak, stamp) ==
    [id |-> Len(d.coins) + 1,
     name |-> Upper(name),
     narrative |-> Underscore(Lower(narrative)),
     peak_mcap |-> peak_mcap,
     peak_mcap_numeric |-> _parse_mcap(peak_mcap),
     time_to_peak |-> time_to_peak,
     time_to_peak_hours |-> _parse_time_to_hours(time_to_peak),
     notes |-> <<>>,
     coin_address |-> <<>>,
     entry_mcap |-> <<>>,
     exit_mcap |-> <<>>,
     recorded_at |-> stamp]

add_coin(d, name, narrative, peak_mcap, time_to_peak, stamp) ==
    [db |-> _update_meta_analysis(
               [d EXCEPT !.coins =
                   Append(@, NewCoin(d, name, narrative, peak_mcap, time_to_peak, stamp))]),
     saved |-> TRUE,
     ret |-> NewCoin(d, name, narrative, peak_mcap, time_to_peak, stamp)]

\* a delete that saves the shorter list and leaves meta_analysis as it was
delete_coin_stale(d, coin_id) ==
    IF Len(SelectSeq(d.coins, LAMBDA c : c.id # coin_id)) < Len(d.coins)
    THEN [db |-> [d EXCEPT !.coins = SelectSeq(@, LAMBDA c : c.id # coin_id)],
          saved |-> TRUE,
          ret |-> TRUE]
    ELSE [db |-> d, saved |-> FALSE, ret |-> FALSE]

\* a delete that saves, recomputes and reports success whatever it found
delete_coin_always(d, coin_id) ==
    [db |-> _update_meta_analysis(
               [d EXCEPT !.coins = SelectSeq(@, LAMBDA c : c.id # coin_id)]),
     saved |-> TRUE,
     ret |-> TRUE]

delete_coin(d, coin_id) ==
    IF Len(SelectSeq(d.coins, LAMBDA c : c.id # coin_id)) < Len(d.coins)
    THEN [db |-> _update_meta_analysis(
                    [d EXCEPT !.coins = SelectSeq(@, LAMBDA c : c.id # coin_id)]),
          saved |-> TRUE,
          ret |-> TRUE]
    ELSE [db |-> d, saved |-> FALSE, ret |-> FALSE]

\* sorted(coins, key=lambda x: x["recorded_at"], reverse=True): a stable
\* sort, so records of one timestamp keep their stored order
RECURSIVE InsertByRecorded(_, _)
InsertByRecorded(coin, sorted) ==
    IF sorted = <<>> THEN <<coin>>
    ELSE IF sorted[1].recorded_at < coin.recorded_at THEN <<coin>> \o sorted
    ELSE <<sorted[1]>> \o InsertByRecorded(coin, Tail(sorted))

RECURSIVE SortByRecorded(_)
SortByRecorded(coins) ==
    IF coins = <<>> THEN <<>>
    ELSE InsertByRecorded(coins[Len(coins)],
                          SortByRecorded(SubSeq(coins, 1, Len(coins) - 1)))

\* a filter that compares the stored narrative with the argument as given
get_all_coins_raw(d, narrative) ==
    SortByRecorded(IF narrative # <<>>
                   THEN SelectSeq(d.coins, LAMBDA c : c.narrative = narrative)
                   ELSE d.coins)

\* get_all_coins; the empty narrative stands for None and "" alike
get_all_coins(d, narrative) ==
    SortByRecorded(IF narrative # <<>>
                   THEN SelectSeq(d.coins,
                                  LAMBDA c : c.narrative = Underscore(Lower(narrative)))
                   ELSE d.coins)

\* analysis.get(narrative_key, {}): the entries of the key, none or one
EntriesOf(analysis, key) == SelectSeq(analysis, LAMBDA e : e.key = key)

\* get_meta_analysis: the whole analysis without a narrative, else the
\* entry of the normalized narrative, or {} (no entry)
get_meta_analysis(d, narrative) ==
    IF narrative # <<>>
    THEN EntriesOf(d.meta_analysis, Underscore(Lower(narrative)))
    ELSE d.meta_analysis

\* a setter that stores the value as given
adjust_threshold_raw(new_threshold) == new_threshold

\* adjust_threshold: max(30, min(90, new_threshold))
adjust_threshold(new_threshold) ==
    LET capped == IF new_threshold < 90 THEN new_threshold ELSE 90
    IN  IF capped > 30 THEN capped ELSE 30

\* max(scores.values()) of test_match
MaxScore(scores) == BestOf({scores.token_sort, scores.partial, scores.ratio})

\* the entry test_match appends for a keyword, given its scores
TestEntry(entry, scores, threshold) ==
    [keyword |-> entry.key,
     trend |-> entry.trend.keyword,
     scores |-> scores,
     would_match |-> ScoreGe(MaxScore(scores), Score(threshold))]

\* the scores dict of test_match
TestScores(keyword_clean, coin_clean) ==
    [token_sort |-> TokenSortRatio(keyword_clean, coin_clean),
     partial |-> PartialRatio(keyword_clean, coin_clean),
     ratio |-> Ratio(keyword_clean, coin_clean)]

\* if max_score >= self.MATCH_THRESHOLD - 10: matches.append(...)
TestAppend(matches, entry, scores, threshold) ==
    IF ScoreGe(MaxScore(scores), Score(threshold - 10))
    THEN Append(matches, TestEntry(entry, scores, threshold))
    ELSE matches

RECURSIVE TestKeywords(_, _, _, _, _)
TestKeywords(keyword_map, k, coin_clean, threshold, matches) ==
    IF k > Len(keyword_map) THEN matches
    ELSE TestKeywords(keyword_map, k + 1, coin_clean, threshold,
                      TestAppend(matches, keyword_map[k],
                                 TestScores(_clean_for_matching(keyword_map[k].key),
                                            coin_clean),
                                 threshold))

\* sorted(matches, key=max score, reverse=True): stable, the higher first
RECURSIVE InsertByScore(_, _)
InsertByScore(x, sorted) ==
    IF sorted = <<>> THEN <<x>>
    ELSE IF ScoreGe(MaxScore(sorted[1].scores), MaxScore(x.scores))
         THEN <<sorted[1]>> \o InsertByScore(x, Tail(sorted))
         ELSE <<x>> \o sorted

RECURSIVE SortByScore(_)
SortByScore(matches) ==
    IF matches = <<>> THEN <<>>
    ELSE InsertByScore(matches[Len(matches)],
                       SortByScore(SubSeq(matches, 1, Len(matches) - 1)))

test_match(coin_name, keyword_map, threshold) ==
    SortByScore(TestKeywords(keyword_map, 1, _clean_for_matching(coin_name),
                             threshold, <<>>))

-----------------------------------------------------------------------------
(* What the feed returns: entities {name, symbol, mint} *)

Entities ==
    { [name |-> <<"A", "I">>,      symbol |-> <<"A", "I">>, mint |-> "m1"],
      [name |-> <<"c", "a", "b">>, symbol |-> <<"C">>,      mint |-> "m2"],
      [name |-> <<"a", "i">>,      symbol |-> <<"T">>,      mint |-> "m2"] }

Mints == {e.mint : e \in Entities}

RECURSIVE SeqsUpTo(_, _)
SeqsUpTo(S, n) ==
    IF n = 0 THEN {<<>>}
    ELSE LET shorter == SeqsUpTo(S, n - 1)
         IN  shorter \cup {Append(q, x) : q \in shorter, x \in S}

Batches == SeqsUpTo(Entities, MaxBatch)

\* a transactions response: each transaction carries a list of token transfers
TxLists == {<<>>} \cup {<<b>> : b \in Batches \ {<<>>}}
           \cup {<<b1, b2>> : b1, b2 \in {b \in Batches : Len(b) = 1}}

RECURSIVE TotalLen(_)
TotalLen(txs) == IF txs = <<>> THEN 0 ELSE Len(txs[1]) + TotalLen(Tail(txs))

-----------------------------------------------------------------------------
(* The engine.  A task is one invocation of start(); its pc is the await    *)
(* at which the coroutine is suspended.                                     *)

Tasks == 1..MaxLoops

\* coins: the batch from the entity being handled on; txs: the transactions
\* after the one being processed
IdleTask == [pc |-> "idle", path |-> "none", coins |-> <<>>,
             txs |-> <<>>, keyword_map |-> <<>>]

Sleeping == [IdleTask EXCEPT !.pc = "sleep"]
Fetching(path) == [IdleTask EXCEPT !.pc = "fetch", !.path = path]
Done == [IdleTask EXCEPT !.pc = "done"]

\* timestamps the batches in flight may still need
Pending(tk) ==
    IF tk.pc \in {"cb", "meta"}
    THEN Len(tk.coins) - (IF tk.pc = "meta" THEN 0 ELSE 1) + TotalLen(tk.txs)
    ELSE 0

RECURSIVE SumPending(_, _)
SumPending(tasks, l) ==
    IF l > MaxLoops THEN 0 ELSE Pending(tasks[l]) + SumPending(tasks, l + 1)

ClockLeft == MaxTime - now - SumPending(task, 1)

\* what one record_match call did to the document it loaded
RecordEffects(pre, post, trend_id) ==
    [appended |-> Len(post.matched_coins) = Len(pre.matched_coins) + 1,
     incremented |-> \E k \in 1..Len(pre.trends) :
                        /\ pre.trends[k].id = trend_id
                        /\ post.trends[k].match_count = pre.trends[k].match_count + 1]

\* what the handling of one match did: the trend the match algorithm returned
\* is identified in the document by its created_at
Handled(m, coin, pre, post, recorded, callbacks) ==
    [hit |-> TRUE, trend |-> m.trend, keyword |-> m.keyword, score |-> m.score,
     coin |-> coin, recorded |-> recorded, callbacks |-> callbacks,
     effects |-> RecordEffects(pre, post, m.trend.id),
     stored |-> \E k \in 1..Len(pre.trends) :
                    pre.trends[k].created_at = m.trend.created_at,
     active |-> \E k \in 1..Len(pre.trends) :
                    /\ pre.trends[k].created_at = m.trend.created_at
                    /\ pre.trends[k].active,
     counted |-> \E k \in 1..Len(pre.trends) :
                    /\ pre.trends[k].created_at = m.trend.created_at
                    /\ Len(post.trends) = Len(pre.trends)
                    /\ post.trends[k].match_count = pre.trends[k].match_count + 1,
     logged |-> /\ Len(post.matched_coins) = Len(pre.matched_coins) + 1
                /\ LET e == post.matched_coins[Len(post.matched_coins)]
                   IN  /\ e.trend_id = m.trend.id
                       /\ e.coin_name = coin.name
                       /\ e.coin_address = coin.mint
                       /\ e.matched_keyword = m.keyword]

NotHandled == [hit |-> FALSE]

\* the engine's state as the body of a processing loop reads and writes it;
\* m: the match the step handled last, if it handled one; skipped: the
\* addresses the step skipped because they were in the seen-set
World ==
    [seen |-> seen_coins, db |-> db, now |-> now,
     fm |-> fm_calls, rm |-> rm_calls, cb |-> cb_calls,
     on_match |-> on_match, m |-> NotHandled, skipped |-> {}]

\* an engine that skips nothing
IsSeenNever(seen, address) == FALSE

\* if token_address in self.seen_coins: continue
IsSeen(seen, address) == address \in seen

\* an engine that remembers nothing
MarkSeenNot(seen, address) == seen

\* self.seen_coins.add(token_address)
MarkSeen(seen, address) == seen \cup {address}

\* the match, record_match and callback of one entity; raises: record_match
\* raises (the store cannot be read or written)
\* record_match has returned r for the match m: if self.on_match
AfterRecord(m, coin, W, r) ==
    IF W.on_match
    THEN [out |-> "cb",
          w |-> [W EXCEPT !.db = r.db, !.now = @ + 1,
                          !.rm[coin.mint] = @ + 1,
                          !.cb[coin.mint] = @ + 1,
                          !.m = Handled(m, coin, W.db, r.db, TRUE, 1)]]
    ELSE [out |-> "next",
          w |-> [W EXCEPT !.db = r.db, !.now = @ + 1,
                          !.rm[coin.mint] = @ + 1,
                          !.m = Handled(m, coin, W.db, r.db, TRUE, 0)]]

\* a handling that forgets the address when record_match raises, so that
\* a later cycle takes the entity up again
HandleMatchRetry(m, coin, raises, W) ==
    IF ~m.hit THEN [out |-> "next", w |-> W]
    ELSE IF raises
    THEN [out |-> "raise",
          w |-> [W EXCEPT !.rm[coin.mint] = @ + 1,
                          !.seen = @ \ {coin.mint},
                          !.m = Handled(m, coin, W.db, W.db, FALSE, 0)]]
    ELSE AfterRecord(m, coin, W,
                     record_match(W.db, m.trend.id, coin.name, coin.mint,
                                  m.keyword, W.now + 1))

\* if match_result: record_match, then the callback
HandleMatch(m, coin, raises, W) ==
    IF ~m.hit THEN [out |-> "next", w |-> W]
    ELSE IF raises
    THEN [out |-> "raise",
          w |-> [W EXCEPT !.rm[coin.mint] = @ + 1,
                          !.m = Handled(m, coin, W.db, W.db, FALSE, 0)]]
    ELSE AfterRecord(m, coin, W,
                     record_match(W.db, m.trend.id, coin.name, coin.mint,
                                  m.keyword, W.now + 1))

HandleCoin(coin, keyword_map, threshold, raises, W0) ==
    HandleMatch(_find_match(coin.name, coin.symbol, keyword_map, threshold),
                coin, raises, [W0 EXCEPT !.fm[coin.mint] = @ + 1])

\* the for loop of _check_graduates_fallback and _process_helius_tokens from
\* entity i on, up to the next await that suspends (the callback), an
\* exception, or the end of the batch
RECURSIVE ScanBatch(_, _, _, _, _, _, _)

\* entity i has been handled with outcome h: on to the next one, unless the
\* callback is awaited or an exception was raised
AfterCoin(path, coins, i, keyword_map, threshold, fail_at, h) ==
    IF h.out = "next"
    THEN ScanBatch(path, coins, i + 1, keyword_map, threshold, fail_at, h.w)
    ELSE [out |-> h.out, i |-> i, w |-> h.w]

\* a loop that passes over an entity without a name on every path
ScanUnseenNamed(path, coins, i, keyword_map, threshold, fail_at, W) ==
    IF coins[i].name = <<>>
    THEN ScanBatch(path, coins, i + 1, keyword_map, threshold, fail_at, W)
    ELSE AfterCoin(path, coins, i, keyword_map, threshold, fail_at,
                   HandleCoin(coins[i], keyword_map, threshold, fail_at = i, W))

\* entity i is not in the seen-set: W has it added
ScanUnseen(path, coins, i, keyword_map, threshold, fail_at, W) ==
    IF path = "helius" /\ coins[i].name = <<>>
    THEN ScanBatch(path, coins, i + 1, keyword_map, threshold, fail_at, W)
    ELSE AfterCoin(path, coins, i, keyword_map, threshold, fail_at,
                   HandleCoin(coins[i], keyword_map, threshold, fail_at = i, W))

ScanBatch(path, coins, i, keyword_map, threshold, fail_at, W) ==
    IF i > Len(coins) THEN [out |-> "end", i |-> i, w |-> W]
    ELSE IF IsSeen(W.seen, coins[i].mint)
    THEN ScanBatch(path, coins, i + 1, keyword_map, threshold, fail_at,
                   [W EXCEPT !.skipped = @ \cup {coins[i].mint}])
    ELSE ScanUnseen(path, coins, i, keyword_map, threshold, fail_at,
                    [W EXCEPT !.seen = MarkSeen(@, coins[i].mint)])

\* an engine whose loop ends with the exception
AfterRaiseExit(path) == Done

\* an engine whose _check_graduates_helius only logs the exception
AfterRaiseSleep(path) == Sleeping

\* where an exception raised while a path is processed is caught: in
\* _check_graduates_helius (then the fallback runs), in
\* _check_graduates_helius_enhanced, or in start(); in none of them does it
\* leave the loop of start()
AfterRaise(path) ==
    IF path = "helius" THEN Fetching("fallback") ELSE Sleeping

\* the task after a scan of a helius or fallback batch
AfterScan(path, coins, keyword_map, R) ==
    IF R.out = "end" THEN Sleeping
    ELSE IF R.out = "raise" THEN AfterRaise(path)
    ELSE [pc |-> "cb", path |-> path, coins |-> SubSeq(coins, R.i, Len(coins)),
          txs |-> <<>>, keyword_map |-> keyword_map]

ScanError(R) == IF R.out = "raise" THEN "record_match" ELSE "none"

\* _process_graduation_tx from transfer i on, and the transactions after it,
\* up to the next metadata request; read_fails: the store cannot be read
RECURSIVE Advance(_, _, _, _, _, _)
Advance(txs, coins, i, keyword_map, read_fails, W) ==
    IF i <= Len(coins)
    THEN IF IsSeen(W.seen, coins[i].mint)
         THEN Advance(txs, coins, i + 1, keyword_map, read_fails,
                      [W EXCEPT !.skipped = @ \cup {coins[i].mint}])
         ELSE [tk |-> [pc |-> "meta", path |-> "enhanced",
                       coins |-> SubSeq(coins, i, Len(coins)),
                       txs |-> txs, keyword_map |-> keyword_map],
               w |-> [W EXCEPT !.seen = MarkSeen(@, coins[i].mint)],
               error |-> "none"]
    ELSE IF txs = <<>> THEN [tk |-> Sleeping, w |-> W, error |-> "none"]
    ELSE IF read_fails THEN [tk |-> AfterRaise("enhanced"), w |-> W, error |-> "read"]
    ELSE Advance(Tail(txs), Head(txs), 1, get_keyword_to_trend_map(W.db), read_fails, W)

-----------------------------------------------------------------------------
(* Actions of the engine *)

\* the variables after a step of task l that ends in task record tk; error:
\* the exception the step raised and the engine caught, if any
Commit(l, step, tk, W, error) ==
    /\ task' = [task EXCEPT ![l] = tk]
    /\ seen_coins' = W.seen
    /\ db' = W.db
    /\ now' = W.now
    /\ fm_calls' = W.fm
    /\ rm_calls' = W.rm
    /\ cb_calls' = W.cb
    /\ last' = [op |-> step, task |-> l, error |-> error, m |-> W.m,
                skipped |-> W.skipped]
    /\ UNCHANGED <<running, MATCH_THRESHOLD, on_match, HELIUS_API_KEY, coin_db, peer>>

\* config.HELIUS_API_KEY as the deployment has it.  The Config class of
\* config.py does not define the attribute, and then reading it raises
\* AttributeError; a deployment that defines it has it set or empty.
ApiKeys == {"absent", "empty", "set"}

\* a step of task l that ran a processing loop over a batch and ended as R
CommitScan(l, step, path, coins, keyword_map, R) ==
    Commit(l, step, AfterScan(path, coins, keyword_map, R), R.w, ScanError(R))

\* a step of task l that scans the batch from entity i on
ScanFrom(l, step, path, coins, i, keyword_map, fail_at) ==
    CommitScan(l, step, path, coins, keyword_map,
               ScanBatch(path, coins, i, keyword_map, MATCH_THRESHOLD, fail_at, World))

\* a step of task l that went through the transfers and ended as A
CommitAdvance(l, step, A) == Commit(l, step, A.tk, A.w, A.error)

FirstPath == IF HELIUS_API_KEY = "set" THEN "helius" ELSE "fallback"

\* a loop that does not look at the flag
LoopTestStuck(flag) == TRUE

\* while self.running
LoopTest(flag) == flag

\* a start() that begins with an empty seen-set
StartFresh(l) ==
    /\ task[l].pc = "idle"
    /\ \A k \in Tasks : k < l => task[k].pc # "idle"
    /\ running' = TRUE
    /\ seen_coins' = {}
    /\ task' = [task EXCEPT ![l] = IF HELIUS_API_KEY = "absent" THEN Done
                                   ELSE Fetching(FirstPath)]
    /\ last' = [op |-> "start", task |-> l,
                error |-> IF HELIUS_API_KEY = "absent" THEN "config" ELSE "none"]
    /\ UNCHANGED <<db, now, on_match, HELIUS_API_KEY, coin_db, MATCH_THRESHOLD,
                   calls, peer>>

\* start() up to its first await; without the attribute the mode banner
\* raises before the loop is entered, and the flag stays set
Start(l) ==
    /\ task[l].pc = "idle"
    /\ \A k \in Tasks : k < l => task[k].pc # "idle"
    /\ running' = TRUE
    /\ task' = [task EXCEPT ![l] = IF HELIUS_API_KEY = "absent" THEN Done
                                   ELSE IF LoopTest(TRUE) THEN Fetching(FirstPath)
                                   ELSE Done]
    /\ last' = [op |-> "start", task |-> l,
                error |-> IF HELIUS_API_KEY = "absent" THEN "config" ELSE "none"]
    /\ UNCHANGED <<db, now, on_match, HELIUS_API_KEY, coin_db, seen_coins, MATCH_THRESHOLD,
                   calls, peer>>

Stop ==
    /\ running' = FALSE
    /\ last' = [op |-> "stop"]
    /\ UNCHANGED <<db, now, on_match, HELIUS_API_KEY, coin_db, seen_coins, MATCH_THRESHOLD, task,
                   calls, peer>>

\* asyncio.sleep(check_interval) returns: the loop tests the flag
SleepReturn(l) ==
    /\ task[l].pc = "sleep"
    /\ task' = [task EXCEPT ![l] = IF LoopTest(running) THEN Fetching(FirstPath) ELSE Done]
    /\ last' = [op |-> "wake", task |-> l]
    /\ UNCHANGED <<db, now, on_match, HELIUS_API_KEY, coin_db, seen_coins, running,
                   MATCH_THRESHOLD, calls, peer>>

\* the response of the pump.fun frontend API arrives: it is not a 200 or the
\* request failed, or it is one of the given batches
FallbackFeed(l, batches) ==
    /\ task[l].pc = "fetch"
    /\ task[l].path = "fallback"
    /\ \/ \E what \in {"none", "fetch"} : Commit(l, "poll", Sleeping, World, what)
       \/ \E coins \in batches, read_fails \in BOOLEAN :
          \E fail_at \in 0..Len(coins) :
            /\ Len(coins) <= ClockLeft
            /\ IF coins = <<>> THEN Commit(l, "poll", Sleeping, World, "none")
               ELSE IF read_fails
               THEN Commit(l, "poll", AfterRaise("fallback"), World, "read")
               ELSE ScanFrom(l, "poll", "fallback", coins, 1,
                             get_keyword_to_trend_map(db), fail_at)

\* the response of the pump.fun frontend API arrives
FallbackResponse(l) == FallbackFeed(l, Batches)

\* the response of the Helius DAS API arrives: it is not a 200, the request
\* failed, it has no items, or its items are one of the given batches
HeliusFeed(l, batches) ==
    /\ task[l].pc = "fetch"
    /\ task[l].path = "helius"
    /\ \/ Commit(l, "poll", Fetching("enhanced"), World, "none")
       \/ Commit(l, "poll", AfterRaise("helius"), World, "fetch")
       \/ Commit(l, "poll", Sleeping, World, "none")
       \/ \E coins \in batches, read_fails \in BOOLEAN :
          \E fail_at \in 0..Len(coins) :
            /\ Len(coins) <= ClockLeft
            /\ IF read_fails
               THEN Commit(l, "poll", AfterRaise("helius"), World, "read")
               ELSE ScanFrom(l, "poll", "helius", coins, 1,
                             get_keyword_to_trend_map(db), fail_at)

\* the response of the Helius DAS API arrives
HeliusResponse(l) == HeliusFeed(l, Batches)

\* the response of the Helius enhanced transactions API arrives: it is not a
\* 200 or the request failed, or it is one of the given transaction lists
EnhancedFeed(l, txlists) ==
    /\ task[l].pc = "fetch"
    /\ task[l].path = "enhanced"
    /\ \/ \E what \in {"none", "fetch"} : Commit(l, "poll", Sleeping, World, what)
       \/ \E txs \in txlists, read_fails \in BOOLEAN :
            /\ TotalLen(txs) <= ClockLeft
            /\ CommitAdvance(l, "poll", Advance(txs, <<>>, 1, <<>>, read_fails, World))

\* the response of the Helius enhanced transactions API arrives
EnhancedResponse(l) == EnhancedFeed(l, TxLists)

\* the transfer's coin has been handled with outcome h
AfterMetadata(l, tk, read_fails, h) ==
    IF h.out = "raise"
    THEN Commit(l, "metadata", AfterRaise("enhanced"), h.w, "record_match")
    ELSE IF h.out = "cb"
    THEN Commit(l, "metadata", [tk EXCEPT !.pc = "cb"], h.w, "none")
    ELSE CommitAdvance(l, "metadata",
                       Advance(tk.txs, tk.coins, 2, tk.keyword_map, read_fails, h.w))

\* _get_token_metadata returns for the transfer: the metadata, or None
MetadataResponse(l) ==
    /\ task[l].pc = "meta"
    /\ \E got \in BOOLEAN, raises \in BOOLEAN, read_fails \in BOOLEAN :
        IF ~got \/ task[l].coins[1].name = <<>>
        THEN CommitAdvance(l, "metadata",
                           Advance(task[l].txs, task[l].coins, 2, task[l].keyword_map,
                                   read_fails, World))
        ELSE AfterMetadata(l, task[l], read_fails,
                           HandleCoin(task[l].coins[1], task[l].keyword_map,
                                      MATCH_THRESHOLD, raises, World))

\* the awaited on_match returns, or raises
CallbackReturn(l) ==
    /\ task[l].pc = "cb"
    /\ \/ Commit(l, "callback", AfterRaise(task[l].path), World, "on_match")
       \/ \E read_fails \in BOOLEAN :
          \E fail_at \in {0} \cup 2..Len(task[l].coins) :
            IF task[l].path = "enhanced"
            THEN CommitAdvance(l, "callback",
                               Advance(task[l].txs, task[l].coins, 2,
                                       task[l].keyword_map, read_fails, World))
            ELSE ScanFrom(l, "callback", task[l].path, task[l].coins, 2,
                          task[l].keyword_map, fail_at)

-----------------------------------------------------------------------------
(* A second engine.  PumpFunMonitor(trends_db) on the TrendsDB of the first *)
(* one: its attributes are set by __init__ on the instance, its on_match    *)
(* stays None, and it runs one invocation of start().                       *)

NewMonitor ==
    [seen_coins |-> {}, running |-> FALSE, MATCH_THRESHOLD |-> 60, task |-> IdleTask]

\* an engine whose seen-set is the one of the first engine
SharedWorld ==
    [World EXCEPT !.on_match = FALSE]

\* the state that a processing loop of the second engine reads and writes
PeerWorld ==
    [World EXCEPT !.seen = peer.seen_coins, !.on_match = FALSE]

\* timestamps left for the second engine
PeerClockLeft == ClockLeft - Pending(peer.task)

\* a step of the second engine that touches nothing but itself
PeerOnly(p, op) ==
    /\ peer' = p
    /\ last' = [op |-> op]
    /\ UNCHANGED <<db, now, engine_vars, on_match, HELIUS_API_KEY, coin_db>>

PeerStart ==
    /\ peer.task.pc = "idle"
    /\ PeerOnly([peer EXCEPT !.running = TRUE,
                             !.task = IF HELIUS_API_KEY = "absent" THEN Done
                                      ELSE Fetching(FirstPath)],
                "peer_start")

PeerStop == PeerOnly([peer EXCEPT !.running = FALSE], "peer_stop")

PeerAdjustThreshold(new_threshold) ==
    PeerOnly([peer EXCEPT !.MATCH_THRESHOLD = adjust_threshold(new_threshold)],
             "peer_adjust_threshold")

PeerSleepReturn ==
    /\ peer.task.pc = "sleep"
    /\ PeerOnly([peer EXCEPT !.task = IF LoopTest(peer.running) THEN Fetching(FirstPath)
                                      ELSE Done],
                "peer_wake")

\* the variables after a step of the second engine's task that ends in task
\* record tk; coins: the entities the step was given
PeerCommit(step, coins, tk, W, error) ==
    /\ peer' = [peer EXCEPT !.seen_coins = W.seen, !.task = tk]
    /\ db' = W.db
    /\ now' = W.now
    /\ last' = [op |-> step, coins |-> coins, error |-> error, m |-> W.m,
                skipped |-> W.skipped]
    /\ UNCHANGED <<engine_vars, on_match, HELIUS_API_KEY, coin_db>>

PeerScan(path, coins, keyword_map, R) ==
    PeerCommit("peer_poll", coins, AfterScan(path, coins, keyword_map, R), R.w,
               ScanError(R))

\* the responses the second engine is given: at most one entity, at most
\* one transaction with one transfer
PeerBatches == {b \in Batches : Len(b) <= 1}
PeerTxLists == {txs \in TxLists : TotalLen(txs) <= 1}

\* a response of the pump.fun frontend API or of the Helius DAS API arrives
PeerBatchResponse ==
    /\ peer.task.pc = "fetch"
    /\ peer.task.path \in {"fallback", "helius"}
    /\ \/ \E what \in {"none", "fetch"} :
            PeerCommit("peer_poll", <<>>,
                       IF what = "fetch" THEN AfterRaise(peer.task.path) ELSE Sleeping,
                       PeerWorld, what)
       \/ /\ peer.task.path = "helius"
          /\ PeerCommit("peer_poll", <<>>, Fetching("enhanced"), PeerWorld, "none")
       \/ \E coins \in PeerBatches, read_fails \in BOOLEAN :
          \E fail_at \in 0..Len(coins) :
            /\ Len(coins) <= PeerClockLeft
            /\ IF peer.task.path = "fallback" /\ coins = <<>>
               THEN PeerCommit("peer_poll", coins, Sleeping, PeerWorld, "none")
               ELSE IF read_fails
               THEN PeerCommit("peer_poll", coins, AfterRaise(peer.task.path),
                               PeerWorld, "read")
               ELSE PeerScan(peer.task.path, coins, get_keyword_to_trend_map(db),
                             ScanBatch(peer.task.path, coins, 1,
                                       get_keyword_to_trend_map(db),
                                       peer.MATCH_THRESHOLD, fail_at, PeerWorld))

PeerAdvance(step, coins, A) == PeerCommit(step, coins, A.tk, A.w, A.error)

\* the response of the Helius enhanced transactions API arrives
PeerEnhancedResponse ==
    /\ peer.task.pc = "fetch"
    /\ peer.task.path = "enhanced"
    /\ \/ \E what \in {"none", "fetch"} :
            PeerCommit("peer_poll", <<>>, Sleeping, PeerWorld, what)
       \/ \E txs \in PeerTxLists, read_fails \in BOOLEAN :
            /\ TotalLen(txs) <= PeerClockLeft
            /\ PeerAdvance("peer_poll", IF txs = <<>> THEN <<>> ELSE txs[1],
                           Advance(txs, <<>>, 1, <<>>, read_fails, PeerWorld))

PeerAfterMetadata(tk, read_fails, h) ==
    IF h.out = "raise"
    THEN PeerCommit("peer_metadata", <<>>, AfterRaise("enhanced"), h.w, "record_match")
    ELSE PeerAdvance("peer_metadata", SubSeq(tk.coins, 2, Len(tk.coins)),
                     Advance(tk.txs, tk.coins, 2, tk.keyword_map, read_fails, h.w))

\* _get_token_metadata returns for the transfer: the metadata, or None
PeerMetadataResponse ==
    /\ peer.task.pc = "meta"
    /\ \E got \in BOOLEAN, raises \in BOOLEAN, read_fails \in BOOLEAN :
        IF ~got \/ peer.task.coins[1].name = <<>>
        THEN PeerAdvance("peer_metadata", SubSeq(peer.task.coins, 2, Len(peer.task.coins)),
                         Advance(peer.task.txs, peer.task.coins, 2,
                                 peer.task.keyword_map, read_fails, PeerWorld))
        ELSE PeerAfterMetadata(peer.task, read_fails,
                               HandleCoin(peer.task.coins[1], peer.task.keyword_map,
                                          peer.MATCH_THRESHOLD, raises, PeerWorld))

-----------------------------------------------------------------------------
(* Calls of the TrendsDB operations by the chat handler and the tool gateway *)

\* the add_trend requests of the store's callers
AddInputs ==
    { [keyword |-> <<"a", "i">>,      aliases |-> <<>>,                 priority |-> 3],
      [keyword |-> <<"A", "I">>,      aliases |-> <<>>,                 priority |-> 0],
      [keyword |-> <<"c", "a", "t">>, aliases |-> << <<"A", "i">> >>,   priority |-> 7] }

\* the ids a caller may pass: those stored, and one that is not
IdInputs == Ids(db) \cup {0}

StoreCall(r, entry) ==
    /\ r.saved => ClockLeft > 0
    /\ db' = r.db
    /\ now' = IF r.saved /\ entry.op # "delete_trend" THEN now + 1 ELSE now
    /\ last' = entry
    /\ UNCHANGED <<engine_vars, on_match, HELIUS_API_KEY, coin_db, peer>>

CallAddTrend(keyword, aliases, priority) ==
    LET r == add_trend(db, keyword, <<>>, "manual", aliases, priority, now + 1)
    IN  StoreCall(r, [op |-> "add_trend", keyword |-> keyword, ret |-> r.ret])

CallUpdateTrend(trend_id, kwargs) ==
    LET r == update_trend(db, trend_id, kwargs, now + 1)
    IN  StoreCall(r, [op |-> "update_trend", trend_id |-> trend_id,
                      kwargs |-> kwargs, ret |-> r.ret])

CallDeactivateTrend(trend_id) ==
    LET r == deactivate_trend(db, trend_id, now + 1)
    IN  StoreCall(r, [op |-> "deactivate_trend", trend_id |-> trend_id, ret |-> r.ret])

CallDeleteTrend(trend_id) ==
    LET r == delete_trend(db, trend_id)
    IN  StoreCall(r, [op |-> "delete_trend", trend_id |-> trend_id, ret |-> r.ret])

CallRecordMatch(trend_id, coin) ==
    LET r == record_match(db, trend_id, coin.name, coin.mint, <<>>, now + 1)
    IN  StoreCall(r, [op |-> "record_match", trend_id |-> trend_id, ret |-> r.ret,
                      effects |-> RecordEffects(db, r.db, trend_id)])

\* a call that only reads the trend store
StoreQuery(entry) ==
    /\ last' = entry
    /\ UNCHANGED <<db, now, engine_vars, on_match, HELIUS_API_KEY, coin_db, peer>>

CallGetAllTrends(active_only) ==
    StoreQuery([op |-> "get_all_trends", active_only |-> active_only,
                ret |-> get_all_trends(db, active_only)])

CallGetAllKeywords ==
    StoreQuery([op |-> "get_all_keywords", ret |-> get_all_keywords(db)])

CallGetKeywordMap ==
    StoreQuery([op |-> "get_keyword_to_trend_map", ret |-> get_keyword_to_trend_map(db)])

CallSearchTrends(query) ==
    StoreQuery([op |-> "search_trends", query |-> query,
                ret |-> search_trends(db, query)])

\* the search requests: a keyword in another case, a letter of a keyword,
\* a word that only a description has, and the empty query
Queries == {<<"A", "I">>, <<"t">>, <<"b">>, <<>>}

\* a third trend, of the highest priority, whose alias is the keyword of
\* another trend in another case
ListAddInputs ==
    { [keyword |-> <<"t", "a", "b">>, aliases |-> << <<"A", "I">> >>, priority |-> 5] }

\* an update that gives a trend a description, with a key no trend has
DescribeInputs == {[description |-> <<"a", " ", "B">>, colour |-> 1]}

\* what the chat handler adds while the engine runs; a repeated keyword is
\* rejected and changes nothing the engine reads
ChatKeywords == {<<"A", "I">>, <<"c", "a", "t">>}
Fresh(keyword) == FirstDuplicate(db.trends, keyword, 1) = 0

KwargsInputs ==
    {[priority |-> 5], [priority |-> 9], [keyword |-> <<"c", "a", "t">>],
     [colour |-> 1]}

DirectCoin == [name |-> <<"A", "I">>, symbol |-> <<"A", "I">>, mint |-> "m1"]

\* the values a caller passes to adjust_threshold
ThresholdInputs == {25, 45, 95}

CallAdjustThreshold(new_threshold) ==
    /\ MATCH_THRESHOLD' = adjust_threshold(new_threshold)
    /\ last' = [op |-> "adjust_threshold", new_threshold |-> new_threshold]
    /\ UNCHANGED <<db, now, seen_coins, running, task, calls, on_match,
                   HELIUS_API_KEY, coin_db, peer>>

\* the trends the matching is exercised on
MatchAddInputs ==
    { [keyword |-> <<"c", "a", "t", "i">>, aliases |-> <<>>, priority |-> 1],
      [keyword |-> <<"c", "a", "t">>,      aliases |-> <<>>, priority |-> 2],
      [keyword |-> <<"A", "i">>,           aliases |-> << <<"i", "a">> >>,
       priority |-> 5] }

\* the names and symbols the matching is exercised on
MatchCoins ==
    { [name |-> <<"c", "a", "t", " ", "i", "b", "b">>, symbol |-> <<"T">>],
      [name |-> <<"c", "a", "t", " ", "a", "i">>,      symbol |-> <<"C">>],
      [name |-> <<"c", "a", "b", " ", "i", "i", "i", "i">>, symbol |-> <<"b">>],
      [name |-> <<"b", "b">>,                          symbol |-> <<"C", "A", "T">>],
      [name |-> <<"A", "-", "I">>,                     symbol |-> <<"I">>],
      [name |-> <<"t", "t", "t">>,                     symbol |-> <<"t">>] }

\* a call of _find_match on the store's current keyword map
CallFindMatch(coin) ==
    /\ last' = [op |-> "find_match", coin |-> coin,
                keyword_map |-> get_keyword_to_trend_map(db),
                threshold |-> MATCH_THRESHOLD,
                ret |-> _find_match(coin.name, coin.symbol,
                                    get_keyword_to_trend_map(db), MATCH_THRESHOLD)]
    /\ UNCHANGED <<db, now, engine_vars, on_match, HELIUS_API_KEY, coin_db, peer>>

\* a call of test_match
CallTestMatch(coin_name) ==
    /\ last' = [op |-> "test_match", coin_name |-> coin_name,
                keyword_map |-> get_keyword_to_trend_map(db),
                threshold |-> MATCH_THRESHOLD,
                ret |-> test_match(coin_name, get_keyword_to_trend_map(db),
                                   MATCH_THRESHOLD)]
    /\ UNCHANGED <<db, now, engine_vars, on_match, HELIUS_API_KEY, coin_db, peer>>

-----------------------------------------------------------------------------
(* Calls of the CoinPerformanceDB operations by the chat handler and the    *)
(* tool gateway                                                             *)

\* the add_coin requests: two narratives, peaks that parse and peaks that
\* do not, times to peak that parse and one that does not
CoinInputs ==
    { [narrative |-> <<"A", " ", "i">>, peak_mcap |-> <<"1", "0", "0">>,
       time_to_peak |-> <<"1", " ", "d">>],
      [narrative |-> <<"a", " ", "i">>, peak_mcap |-> <<"2", "0", "0">>,
       time_to_peak |-> <<"x">>],
      [narrative |-> <<"a", "_", "i">>, peak_mcap |-> <<"$", "3", "0", "0">>,
       time_to_peak |-> <<"1", "2", "H">>],
      [narrative |-> <<"a", " ", "i">>, peak_mcap |-> <<"4", "0", "0">>,
       time_to_peak |-> <<"x">>],
      [narrative |-> <<"a", " ", "i">>, peak_mcap |-> <<"a", "b", "c">>,
       time_to_peak |-> <<"1", " ", "d">>],
      [narrative |-> <<"c", "a", "t">>, peak_mcap |-> <<"1", ".", "5", "k">>,
       time_to_peak |-> <<"3", "0", " ", "m">>],
      [narrative |-> <<"c", "a", "t">>, peak_mcap |-> <<"0">>,
       time_to_peak |-> <<"x">>] }

\* the requests made next to the trend store's callers
FewCoinInputs ==
    { [narrative |-> <<"c", "a", "t">>, peak_mcap |-> <<"2", "M">>,
       time_to_peak |-> <<"1", " ", "d">>] }

\* the ids a caller may pass: those stored, and one that is not
CoinIds(d) == {d.coins[k].id : k \in 1..Len(d.coins)}
CoinIdInputs == CoinIds(coin_db) \cup {0}

CoinCall(r, entry) ==
    /\ coin_db' = r.db
    /\ last' = entry
    /\ UNCHANGED <<db, engine_vars, on_match, HELIUS_API_KEY, peer>>

CallAddCoin(c) ==
    /\ now < MaxCoins
    /\ now' = now + 1
    /\ CoinCall(add_coin(coin_db, <<"a", "i">>, c.narrative, c.peak_mcap,
                         c.time_to_peak, now + 1),
                [op |-> "add_coin", narrative |-> c.narrative,
                 ret |-> add_coin(coin_db, <<"a", "i">>, c.narrative, c.peak_mcap,
                                  c.time_to_peak, now + 1).ret])

CallDeleteCoin(coin_id) ==
    /\ now' = now
    /\ CoinCall(delete_coin(coin_db, coin_id),
                [op |-> "delete_coin", coin_id |-> coin_id, before |-> coin_db,
                 ret |-> delete_coin(coin_db, coin_id).ret])

\* the narratives the readers of the ledger are asked for: spellings of
\* one narrative, another narrative, one that is not stored, and none
NarrativeInputs ==
    { <<"A", " ", "i">>, <<"a", "_", "i">>, <<"C", "a", "t">>, <<"b">>, <<>> }

\* the add_coin requests next to the readers: the spellings of a narrative,
\* the empty narrative, and a peak that does not parse
ReadCoinInputs ==
    { [narrative |-> <<"A", " ", "i">>, peak_mcap |-> <<"1", "0", "0">>,
       time_to_peak |-> <<"1", " ", "d">>],
      [narrative |-> <<"a", "_", "i">>, peak_mcap |-> <<"2", "0", "0">>,
       time_to_peak |-> <<"x">>],
      [narrative |-> <<"C", "a", "t">>, peak_mcap |-> <<"a", "b", "c">>,
       time_to_peak |-> <<"x">>],
      [narrative |-> <<>>, peak_mcap |-> <<"5", "0", "K">>,
       time_to_peak |-> <<"x">>] }

CoinQuery(entry) ==
    /\ last' = entry
    /\ UNCHANGED <<db, now, engine_vars, on_match, HELIUS_API_KEY, coin_db, peer>>

\* the texts given to the two parsers: every text of up to MaxText
\* characters of an alphabet, and the texts of the documentation
McapChars == {"5", ".", "K", "M", "k", "$", ",", " ", "a"}
McapTexts ==
    SeqsUpTo(McapChars, MaxText)
    \cup { <<"5", "0", "0", "M">>, <<"1", ".", "2", "B">>, <<"5", "0", "K">>,
            <<"$", "1", ",", "0", "0", "0">>, <<"a", "b", "c">> }

TimeChars == {"3", ".", " ", "h", "d", "w", "m", "H", "a"}
TimeTexts ==
    SeqsUpTo(TimeChars, MaxText)
    \cup { <<"3", " ", "d", "a", "y", "s">>, <<"1", "2", " ", "h", "o", "u", "r", "s">>,
            <<"1", " ", "w", "e", "e", "k">>, <<"3", "0", " ", "m", "i", "n">>,
            <<"g", "a", "r", "b", "a", "g", "e">>,
            <<"3", " ", "m", "o", "n", "t", "h", "s">> }

CallParseMcap(mcap_str) ==
    /\ last' = [op |-> "_parse_mcap", mcap_str |-> mcap_str, ret |-> _parse_mcap(mcap_str)]
    /\ UNCHANGED <<db, now, engine_vars, on_match, HELIUS_API_KEY, coin_db, peer>>

CallParseTime(time_str) ==
    /\ last' = [op |-> "_parse_time_to_hours", time_str |-> time_str,
                ret |-> _parse_time_to_hours(time_str)]
    /\ UNCHANGED <<db, now, engine_vars, on_match, HELIUS_API_KEY, coin_db, peer>>

CallGetAllCoins(narrative) ==
    CoinQuery([op |-> "get_all_coins", narrative |-> narrative,
               ret |-> get_all_coins(coin_db, narrative)])

CallGetMetaAnalysis(narrative) ==
    CoinQuery([op |-> "get_meta_analysis", narrative |-> narrative,
               ret |-> get_meta_analysis(coin_db, narrative)])

-----------------------------------------------------------------------------
(* The store files.  db and coin_db are what trends.json and                *)
(* coin_performance.json hold: a document, or no file, or a text that       *)
(* json.load does not accept.                                               *)

AbsentFile == [file |-> "absent"]
CorruptFile == [file |-> "corrupt"]

\* a construction that writes the empty document unless the file holds a
\* document: over a missing file and over one that cannot be parsed
_ensure_db_reset(file, empty) ==
    IF file = AbsentFile \/ file = CorruptFile THEN empty ELSE file

\* if not os.path.exists(self.db_path): self._save_db(empty)
_ensure_db_exists(file, empty) ==
    IF file = AbsentFile THEN empty ELSE file

\* TrendsDB(): __init__ ends with _ensure_db_exists
ConstructTrendsDB ==
    /\ db' = _ensure_db_exists(db, EmptyDb)
    /\ last' = [op |-> "TrendsDB", before |-> db]
    /\ UNCHANGED <<now, engine_vars, on_match, HELIUS_API_KEY, coin_db, peer>>

\* CoinPerformanceDB()
ConstructCoinPerformanceDB ==
    /\ coin_db' = _ensure_db_exists(coin_db, EmptyCoinDb)
    /\ last' = [op |-> "CoinPerformanceDB", before |-> coin_db]
    /\ UNCHANGED <<db, now, engine_vars, on_match, HELIUS_API_KEY, peer>>

\* _load_db: json.load raises on the text, before anything is changed
LoadRaises(op) ==
    /\ last' = [op |-> op, raised |-> TRUE]
    /\ UNCHANGED <<db, now, engine_vars, on_match, HELIUS_API_KEY, coin_db, peer>>

\* a method of a TrendsDB object: the object was constructed, so that the
\* file is there, and the method begins with _load_db
OnTrendsFile(op, Call) ==
    /\ db # AbsentFile
    /\ IF db = CorruptFile THEN LoadRaises(op) ELSE Call

\* a method of a CoinPerformanceDB object
OnCoinsFile(op, Call) ==
    /\ coin_db # AbsentFile
    /\ IF coin_db = CorruptFile THEN LoadRaises(op) ELSE Call

\* the operations that begin with _load_db
TrendsFileOps ==
    {"add_trend", "deactivate_trend", "delete_trend", "record_match", "get_all_trends"}
CoinsFileOps == {"add_coin", "delete_coin", "get_all_coins", "get_meta_analysis"}

\* what the files hold when the process starts
TrendsFiles ==
    {AbsentFile, CorruptFile, EmptyDb,
     add_trend(EmptyDb, <<"A", "I">>, <<>>, "manual", <<>>, 1, 1).db}
CoinsFiles ==
    {AbsentFile, CorruptFile, EmptyCoinDb,
     add_coin(EmptyCoinDb, <<"a", "i">>, <<"c", "a", "t">>, <<"2", "M">>,
              <<"1", " ", "d">>, 1).db}

-----------------------------------------------------------------------------
(* Specifications *)

Init ==
    /\ db = EmptyDb
    /\ now = 0
    /\ last = [op |-> "none"]
    /\ seen_coins = {}
    /\ running = FALSE
    /\ MATCH_THRESHOLD = 60
    /\ task = [l \in Tasks |-> IdleTask]
    /\ on_match = TRUE
    /\ HELIUS_API_KEY \in ApiKeys
    /\ fm_calls = [a \in Mints |-> 0]
    /\ rm_calls = [a \in Mints |-> 0]
    /\ cb_calls = [a \in Mints |-> 0]
    /\ coin_db = EmptyCoinDb
    /\ peer = NewMonitor

\* the store alone, driven by its callers
NextStore ==
    \/ \E a \in AddInputs : CallAddTrend(a.keyword, a.aliases, a.priority)
    \/ \E id \in IdInputs, kw \in KwargsInputs : CallUpdateTrend(id, kw)
    \/ \E id \in IdInputs : CallDeactivateTrend(id)
    \/ \E id \in IdInputs : CallDeleteTrend(id)
    \/ \E id \in IdInputs : CallRecordMatch(id, DirectCoin)

SpecStore == Init /\ [][NextStore]_vars

\* the store driven by callers that never pass a keyword to update_trend
NextKeywords ==
    \/ \E a \in AddInputs : CallAddTrend(a.keyword, a.aliases, a.priority)
    \/ \E id \in IdInputs : CallDeactivateTrend(id)
    \/ \E id \in IdInputs : CallDeleteTrend(id)
    \/ \E id \in IdInputs : CallRecordMatch(id, DirectCoin)

SpecKeywords == Init /\ [][NextKeywords]_vars

\* the two stores over the files a process may find
InitFiles ==
    /\ db \in TrendsFiles
    /\ coin_db \in CoinsFiles
    /\ now = 1
    /\ last = [op |-> "none"]
    /\ seen_coins = {}
    /\ running = FALSE
    /\ MATCH_THRESHOLD = 60
    /\ task = [l \in Tasks |-> IdleTask]
    /\ on_match = TRUE
    /\ HELIUS_API_KEY = "empty"
    /\ fm_calls = [a \in Mints |-> 0]
    /\ rm_calls = [a \in Mints |-> 0]
    /\ cb_calls = [a \in Mints |-> 0]
    /\ peer = NewMonitor

NextFiles ==
    \/ ConstructTrendsDB
    \/ ConstructCoinPerformanceDB
    \/ \E k \in ChatKeywords : OnTrendsFile("add_trend", CallAddTrend(k, <<>>, 1))
    \/ \E id \in {0, 1} : OnTrendsFile("deactivate_trend", CallDeactivateTrend(id))
    \/ \E id \in {0, 1} : OnTrendsFile("delete_trend", CallDeleteTrend(id))
    \/ \E id \in {0, 1} : OnTrendsFile("record_match", CallRecordMatch(id, DirectCoin))
    \/ \E f \in BOOLEAN : OnTrendsFile("get_all_trends", CallGetAllTrends(f))
    \/ \E c \in FewCoinInputs : OnCoinsFile("add_coin", CallAddCoin(c))
    \/ \E id \in {0, 1} : OnCoinsFile("delete_coin", CallDeleteCoin(id))
    \/ OnCoinsFile("get_all_coins", CallGetAllCoins(<<>>))
    \/ OnCoinsFile("get_meta_analysis", CallGetMetaAnalysis(<<>>))

SpecFiles == InitFiles /\ [][NextFiles]_vars

\* main(): the monitor is started once, and the chat handler adds and
\* removes trends meanwhile
Next ==
    \/ Start(1)
    \/ Stop
    \/ \E l \in Tasks : SleepReturn(l)
    \/ \E l \in Tasks : FallbackResponse(l)
    \/ \E l \in Tasks : HeliusResponse(l)
    \/ \E l \in Tasks : EnhancedResponse(l)
    \/ \E l \in Tasks : MetadataResponse(l)
    \/ \E l \in Tasks : CallbackReturn(l)
    \/ \E k \in ChatKeywords : Fresh(k) /\ CallAddTrend(k, <<>>, 1)
    \/ \E id \in Ids(db) : CallDeactivateTrend(id)
    \/ \E id \in Ids(db) : CallDeleteTrend(id)

Spec == Init /\ [][Next]_vars

\* the engine over a store that holds a trend already, with start() and
\* stop() called at any time
InitLoaded ==
    /\ db = add_trend(EmptyDb, <<"A", "I">>, <<>>, "manual", <<>>, 1, 1).db
    /\ now = 1
    /\ last = [op |-> "none"]
    /\ seen_coins = {}
    /\ running = FALSE
    /\ MATCH_THRESHOLD = 60
    /\ task = [l \in Tasks |-> IdleTask]
    /\ on_match = TRUE
    /\ HELIUS_API_KEY \in ApiKeys
    /\ fm_calls = [a \in Mints |-> 0]
    /\ rm_calls = [a \in Mints |-> 0]
    /\ cb_calls = [a \in Mints |-> 0]
    /\ coin_db = EmptyCoinDb
    /\ peer = NewMonitor

NextEngine ==
    \/ \E l \in Tasks : Start(l)
    \/ Stop
    \/ \E l \in Tasks : SleepReturn(l)
    \/ \E l \in Tasks : FallbackResponse(l)
    \/ \E l \in Tasks : HeliusResponse(l)
    \/ \E l \in Tasks : EnhancedResponse(l)
    \/ \E l \in Tasks : MetadataResponse(l)
    \/ \E l \in Tasks : CallbackReturn(l)

SpecRestart == InitLoaded /\ [][NextEngine]_vars

\* every request, sleep and callback of a task returns in the end: the
\* requests carry timeouts, and on_match must not block for ever
Progress(l) ==
    \/ SleepReturn(l)
    \/ FallbackResponse(l)
    \/ HeliusResponse(l)
    \/ EnhancedResponse(l)
    \/ MetadataResponse(l)
    \/ CallbackReturn(l)

FairRestart == SpecRestart /\ \A l \in Tasks : WF_vars(Progress(l))

\* entities without a name, and with a name of special characters only
NamelessEntities ==
    { [name |-> <<>>,         symbol |-> <<"T">>, mint |-> "m1"],
      [name |-> <<"-", "!">>, symbol |-> <<"T">>, mint |-> "m2"] }

NamelessBatches == SeqsUpTo(NamelessEntities, MaxBatch)

NamelessTxLists == {<<>>} \cup {<<b>> : b \in NamelessBatches \ {<<>>}}

\* names the match algorithm is called with directly
NamelessCoins ==
    { [name |-> <<>>,                symbol |-> <<>>],
      [name |-> <<"-", "!">>,        symbol |-> <<"T">>],
      [name |-> <<"c", "a", "b">>,   symbol |-> <<"C">>],
      [name |-> <<"t", "t", "t">>,   symbol |-> <<"t">>] }

\* the stores the nameless entities are matched against: an empty one, one
\* trend with an alias, and one trend whose keyword has no letter or digit
NamelessStores ==
    { EmptyDb,
      add_trend(EmptyDb, <<"A", "I">>, <<>>, "manual", << <<"c", "a", "b">> >>, 1, 1).db,
      add_trend(EmptyDb, <<"-">>, <<>>, "manual", <<>>, 1, 1).db }

InitNameless ==
    /\ db \in NamelessStores
    /\ now = 1
    /\ last = [op |-> "none"]
    /\ seen_coins = {}
    /\ running = FALSE
    /\ MATCH_THRESHOLD = 60
    /\ task = [l \in Tasks |-> IdleTask]
    /\ on_match = TRUE
    /\ HELIUS_API_KEY \in ApiKeys
    /\ fm_calls = [a \in Mints |-> 0]
    /\ rm_calls = [a \in Mints |-> 0]
    /\ cb_calls = [a \in Mints |-> 0]
    /\ coin_db = EmptyCoinDb
    /\ peer = NewMonitor

\* one engine fed with nameless entities on each of its paths, and the
\* match algorithm called on its own
NextNameless ==
    \/ Start(1)
    \/ Stop
    \/ SleepReturn(1)
    \/ FallbackFeed(1, NamelessBatches)
    \/ HeliusFeed(1, NamelessBatches)
    \/ EnhancedFeed(1, NamelessTxLists)
    \/ MetadataResponse(1)
    \/ CallbackReturn(1)
    \/ \E c \in NamelessCoins : CallFindMatch(c)

SpecNameless == InitNameless /\ [][NextNameless]_vars

\* the match algorithm and its diagnostic twin, over the trends of the
\* store and every threshold adjust_threshold can set
NextMatch ==
    \/ \E a \in MatchAddInputs : CallAddTrend(a.keyword, a.aliases, a.priority)
    \/ \E n \in ThresholdInputs : CallAdjustThreshold(n)
    \/ \E c \in MatchCoins : CallFindMatch(c)
    \/ \E c \in MatchCoins : CallTestMatch(c.name)

SpecMatch == Init /\ [][NextMatch]_vars

\* the engine with its threshold adjusted at any time
NextTuning ==
    \/ NextEngine
    \/ \E n \in ThresholdInputs : CallAdjustThreshold(n)

SpecTuning == InitLoaded /\ [][NextTuning]_vars

\* the coin ledger alone, driven by its callers
NextCoins ==
    \/ \E c \in CoinInputs : CallAddCoin(c)
    \/ \E id \in CoinIdInputs : CallDeleteCoin(id)

SpecCoins == Init /\ [][NextCoins]_vars

\* the coin ledger with its readers
NextCoinReads ==
    \/ \E c \in ReadCoinInputs : CallAddCoin(c)
    \/ \E id \in CoinIdInputs : CallDeleteCoin(id)
    \/ \E n \in NarrativeInputs : CallGetAllCoins(n)
    \/ \E n \in NarrativeInputs : CallGetMetaAnalysis(n)

SpecCoinReads == Init /\ [][NextCoinReads]_vars

\* two engines on one trend store, each with one invocation of start().
\* The first engine is followed on the frontend API path, with its
\* callback; while the Helius key is set its request stays outstanding.
\* The second engine is followed on every path.
NextPeers ==
    \/ Start(1)
    \/ Stop
    \/ SleepReturn(1)
    \/ FallbackResponse(1)
    \/ CallbackReturn(1)
    \/ CallAdjustThreshold(95)
    \/ PeerStart
    \/ PeerStop
    \/ PeerSleepReturn
    \/ PeerBatchResponse
    \/ PeerEnhancedResponse
    \/ PeerMetadataResponse
    \/ PeerAdjustThreshold(45)

SpecPeers == InitLoaded /\ [][NextPeers]_vars

\* the two parsers of the coin ledger on their own
NextParsers ==
    \/ \E text \in McapTexts : CallParseMcap(text)
    \/ \E text \in TimeTexts : CallParseTime(text)

SpecParsers == Init /\ [][NextParsers]_vars

\* both stores, driven by their callers
NextLedgers ==
    \/ NextStore
    \/ \E c \in FewCoinInputs : CallAddCoin(c)
    \/ \E id \in CoinIdInputs : CallDeleteCoin(id)

SpecLedgers == Init /\ [][NextLedgers]_vars

\* the trend store with its readers: the listing, the matching corpus, the
\* search, and a match against the current keyword map
NextQueries ==
    \/ NextStore
    \/ \E a \in ListAddInputs : CallAddTrend(a.keyword, a.aliases, a.priority)
    \/ \E id \in Ids(db), kw \in DescribeInputs : CallUpdateTrend(id, kw)
    \/ \E active_only \in BOOLEAN : CallGetAllTrends(active_only)
    \/ CallGetAllKeywords
    \/ CallGetKeywordMap
    \/ \E q \in Queries : CallSearchTrends(q)
    \/ CallFindMatch(DirectCoin)

SpecQueries == Init /\ [][NextQueries]_vars

-----------------------------------------------------------------------------
(* Properties *)

\* the tasks that are inside a poll cycle or its sleep
InCycle == {l \in Tasks : task[l].pc \in {"fetch", "meta", "cb", "sleep"}}

\* the steps in which a poll task runs the body of a processing loop
EngineSteps == {"poll", "metadata", "callback"}

\* the stored trends whose keyword equals this one when both are lower-cased
Conflicts(d, keyword) ==
    {k \in 1..Len(d.trends) : Lower(d.trends[k].keyword) = Lower(keyword)}

\* C9: add_trend with a keyword that equals, case-insensitively, the keyword
\* of a stored trend returns the error outcome carrying that stored record as
\* it is, and leaves the trend list and the match log as they were.
C9_DuplicateRejected ==
    [][(last'.op = "add_trend" /\ Conflicts(db, last'.keyword) # {}) =>
          /\ last'.ret.error
          /\ db' = db
          /\ \E k \in Conflicts(db, last'.keyword) :
                last'.ret.existing = db.trends[k]]_vars

\* C9: a duplicate that differs from the stored keyword in case was rejected
C9_Witness ==
    /\ last.op = "add_trend"
    /\ last.ret.error
    /\ last.keyword # last.ret.existing.keyword
    /\ Lower(last.keyword) = Lower(last.ret.existing.keyword)

\* C10: no two stored trends have the same id.
C10_UniqueIds ==
    \A i, j \in 1..Len(db.trends) :
        i # j => db.trends[i].id # db.trends[j].id

\* the last step was a poll task's, and in it a match was recorded
Recorded == last.op \in EngineSteps /\ last.m.hit /\ last.m.recorded

\* C1: every record_match call, issued directly or by the engine, changes the
\* persisted document by both effects or by neither: a match-log entry is
\* appended exactly when the match_count of a stored trend with that id is
\* incremented.
C1_BothOrNeither ==
    /\ last.op = "record_match" =>
          (last.effects.appended <=> last.effects.incremented)
    /\ Recorded =>
          (last.m.effects.appended <=> last.m.effects.incremented)

\* C2: within one engine instance record_match and on_match are each invoked
\* at most once per entity address, and an address they were invoked for is
\* in the seen-set.
C2_AtMostOncePerAddress ==
    \A a \in Mints :
        /\ rm_calls[a] <= 1
        /\ cb_calls[a] <= 1
        /\ rm_calls[a] = 1 => a \in seen_coins

\* C2: a later pass skipped an address for which a match had been emitted
C2_Witness ==
    /\ last.op \in EngineSteps
    /\ \E a \in last.skipped : rm_calls[a] = 1 /\ cb_calls[a] = 1

\* C3, as the specification states it: an address whose entity the match
\* algorithm has been run on without a match is not in the seen-set.
C3_SeenOnlyOnMatch ==
    \A a \in Mints :
        (fm_calls[a] >= 1 /\ rm_calls[a] = 0) => a \notin seen_coins

\* C3, as the code has it: an address is added to the seen-set before the
\* match algorithm is run on its entity, matched or not, so the algorithm is
\* run at most once per address by an engine instance.
C3_SeenBeforeMatching ==
    \A a \in Mints :
        /\ fm_calls[a] <= 1
        /\ fm_calls[a] >= 1 => a \in seen_coins

\* C3: an entity that did not match was skipped by a later pass although a
\* trend added in between matches it
C3_Witness ==
    /\ last.op \in EngineSteps
    /\ \E e \in Entities :
        /\ \A f \in Entities : f.mint = e.mint => f = e
        /\ e.mint \in last.skipped
        /\ fm_calls[e.mint] = 1
        /\ rm_calls[e.mint] = 0
        /\ _find_match(e.name, e.symbol, get_keyword_to_trend_map(db),
                       MATCH_THRESHOLD).hit

\* C4: an exception raised in a poll cycle by the feed fetch, a store read,
\* record_match or on_match does not end the loop of start(): the task goes
\* on to its sleep (after the fallback, when the exception was raised on the
\* Helius path), a task that wakes while the engine is running begins the
\* next cycle, and a task leaves its loop only when it wakes to a cleared
\* flag.
C4_ExceptionsDoNotEndLoop ==
    [][\A l \in Tasks :
        /\ (last'.op \in EngineSteps /\ last'.task = l /\ last'.error # "none") =>
              task'[l] \in {Sleeping, Fetching("fallback")}
        /\ (task[l].pc = "sleep" /\ task'[l].pc # "sleep" /\ running) =>
              task'[l].pc = "fetch"
        /\ (l \in InCycle /\ task'[l].pc = "done") =>
              (task[l].pc = "sleep" /\ ~running)]_vars

\* C4: on_match raised while the engine was running and the task sleeps
C4_Witness ==
    /\ last.op = "callback"
    /\ last.error = "on_match"
    /\ running
    /\ task[last.task].pc = "sleep"

\* C5: at most one poll cycle of an engine instance is in progress at any
\* time, under every sequence of start() and stop() calls.
C5_OneCycleAtATime == Cardinality(InCycle) <= 1

\* no task is inside a cycle or its sleep
AllStopped == InCycle = {}

\* C6: stop() interrupts nothing, and when it is not followed by another
\* start() every loop of start() terminates: from some point on no task is
\* in a cycle, a fetch, a callback or a sleep.
C6_StopTerminates ==
    /\ [][last'.op = "stop" => task' = task]_vars
    /\ [][\A l \in Tasks : (~running /\ task[l].pc = "sleep") =>
                              task'[l].pc \in {"sleep", "done"}]_vars
    /\ (<>[](~running)) => <>[]AllStopped

\* C6: a loop that was in its cycle ended on waking after stop()
C6_Witness ==
    /\ last.op = "wake"
    /\ ~running
    /\ task[last.task].pc = "done"
    /\ AllStopped
    /\ \E a \in Mints : cb_calls[a] = 1

\* C7: when the match algorithm returns a trend for an unseen entity, the
\* handling of the entity increments the persisted match_count of that trend
\* by one, appends one log entry with the trend's id, the entity's name and
\* address and the matched keyword, and invokes on_match once.
C7_MatchIsRecorded ==
    Recorded =>
        /\ last.m.counted
        /\ last.m.logged
        /\ last.m.callbacks = 1

\* C8: the engine calls record_match and on_match only for a trend that is
\* stored and active at the time of the call.
C8_NoMatchAfterRemoval ==
    (last.op \in EngineSteps /\ last.m.hit) => last.m.active

\* C11: the priority of every stored trend is in 1..5.
C11_PriorityInRange ==
    \A k \in 1..Len(db.trends) : db.trends[k].priority \in 1..5

\* sequence p is a prefix of sequence q
IsPrefix(p, q) == Len(p) <= Len(q) /\ SubSeq(q, 1, Len(p)) = p

\* C13: the match log is append-only: every step of the store keeps the
\* previous log as a prefix of the new one, record_match extends it by one
\* entry, and every other operation leaves it as it was.
C13_LogAppendOnly ==
    [][/\ IsPrefix(db.matched_coins, db'.matched_coins)
       /\ last'.op = "record_match" =>
             Len(db'.matched_coins) = Len(db.matched_coins) + 1
       /\ last'.op # "record_match" =>
             db'.matched_coins = db.matched_coins]_vars

\* C13: a trend was deleted and its entries are still in the log
C13_Witness ==
    /\ last.op = "delete_trend"
    /\ last.ret
    /\ last.trend_id \notin Ids(db)
    /\ \E k \in 1..Len(db.matched_coins) :
          db.matched_coins[k].trend_id = last.trend_id

\* C19: MATCH_THRESHOLD is in 30..90 in every state; adjust_threshold(n)
\* sets it to n brought into that range and leaves the running flag, the
\* seen-set, the callback, the tasks and the store as they were; no other
\* step changes it.
C19_ThresholdInRange ==
    /\ [](MATCH_THRESHOLD \in 30..90)
    /\ [][IF last'.op = "adjust_threshold"
          THEN /\ MATCH_THRESHOLD' = (IF last'.new_threshold < 30 THEN 30
                                      ELSE IF last'.new_threshold > 90 THEN 90
                                      ELSE last'.new_threshold)
               /\ UNCHANGED <<running, seen_coins, on_match, task, db, peer>>
          ELSE MATCH_THRESHOLD' = MATCH_THRESHOLD]_vars

\* C19: a value above the range was capped while the engine was polling
C19_Witness ==
    /\ last.op = "adjust_threshold"
    /\ last.new_threshold > 90
    /\ MATCH_THRESHOLD = 90
    /\ running
    /\ seen_coins # {}

-----------------------------------------------------------------------------
(* The match algorithm, stated on the recorded calls of _find_match and     *)
(* test_match: the rules are written here from their description, with      *)
(* their own containment test, and compared with what the call returned.    *)

SameScore(x, y) == ScoreGe(x, y) /\ ScoreGe(y, x)

Contains(text, part) ==
    \E i \in 0..Len(text) : \E j \in i..Len(text) : SubSeq(text, i + 1, j) = part

\* rule a: the normalized keyword is inside the normalized name or vice versa
RuleA(key, name) ==
    \/ Contains(_clean_for_matching(name), _clean_for_matching(key))
    \/ Contains(_clean_for_matching(key), _clean_for_matching(name))

\* rule b: the normalized keyword is the lowercased symbol
RuleB(key, symbol) == _clean_for_matching(key) = Lower(symbol)

RatioC(key, name) == TokenSortRatio(_clean_for_matching(key), _clean_for_matching(name))
RatioD(key, name) == PartialRatio(_clean_for_matching(key), _clean_for_matching(name))

AcceptC(key, name, threshold) == ScoreGe(RatioC(key, name), Score(threshold))
AcceptD(key, name, threshold) == ScoreGe(RatioD(key, name), Score(threshold + 10))

\* the accepted score of the first rule that applies, d coming after c
FirstRuleScores(key, coin, threshold) ==
    IF RuleA(key, coin.name) THEN {Score(95)}
    ELSE IF RuleB(key, coin.symbol) THEN {Score(90)}
    ELSE IF AcceptC(key, coin.name, threshold) THEN {RatioC(key, coin.name)}
    ELSE IF AcceptD(key, coin.name, threshold) THEN {RatioD(key, coin.name)}
    ELSE {}

\* the accepted scores when c and d are both looked at
AcceptedScores(key, coin, threshold) ==
    IF RuleA(key, coin.name) THEN {Score(95)}
    ELSE IF RuleB(key, coin.symbol) THEN {Score(90)}
    ELSE (IF AcceptC(key, coin.name, threshold) THEN {RatioC(key, coin.name)} ELSE {})
         \cup (IF AcceptD(key, coin.name, threshold) THEN {RatioD(key, coin.name)} ELSE {})

FoundCall == last.op = "find_match"
Keys == 1..Len(last.keyword_map)
Accepted(k) == AcceptedScores(last.keyword_map[k].key, last.coin, last.threshold)

\* C16 as stated: the keyword a call of _find_match returns has the score of
\* the first rule that applies to it in the order a, b, c, d, rule d being
\* looked at only when rule c did not accept the keyword.
C16_FirstRuleApplies ==
    (FoundCall /\ last.ret.hit) =>
        \E s \in FirstRuleScores(last.ret.keyword, last.coin, last.threshold) :
            SameScore(last.ret.score, s)

\* C16: a keyword to which rule a applies has the score 95, else one to
\* which rule b applies 90, else the larger of its accepted ratios of rule c
\* (at the threshold) and rule d (at the threshold plus 10), both being
\* looked at: the keyword returned has that score, and no keyword of the map
\* has an accepted score above it.
C16_LargestAcceptedRule ==
    FoundCall =>
        /\ last.ret.hit =>
              /\ AcceptedScores(last.ret.keyword, last.coin, last.threshold) # {}
              /\ SameScore(last.ret.score,
                           BestOf(AcceptedScores(last.ret.keyword, last.coin,
                                                 last.threshold)))
        /\ \A k \in Keys : \A s \in Accepted(k) :
              last.ret.hit /\ ScoreGe(last.ret.score, s)

\* C16: the keyword returned is accepted by rule c and has the larger score
\* of rule d
C16_Witness ==
    /\ FoundCall
    /\ last.ret.hit
    /\ ~RuleA(last.ret.keyword, last.coin.name)
    /\ ~RuleB(last.ret.keyword, last.coin.symbol)
    /\ AcceptC(last.ret.keyword, last.coin.name, last.threshold)
    /\ ScoreGt(last.ret.score, RatioC(last.ret.keyword, last.coin.name))
    /\ SameScore(last.ret.score, RatioD(last.ret.keyword, last.coin.name))

\* C17: _find_match returns none exactly when no keyword of the map has an
\* accepted score; otherwise it returns a keyword of the map with its trend
\* and its score, no keyword of the map has a larger accepted score, and
\* every keyword before it in the map has a smaller one.
C17_BestEarliest ==
    FoundCall =>
        /\ ~last.ret.hit <=> (\A k \in Keys : Accepted(k) = {})
        /\ last.ret.hit =>
              \E k \in Keys :
                 /\ last.keyword_map[k].key = last.ret.keyword
                 /\ last.keyword_map[k].trend = last.ret.trend
                 /\ Accepted(k) # {}
                 /\ SameScore(last.ret.score, BestOf(Accepted(k)))
                 /\ \A j \in Keys : \A s \in Accepted(j) :
                       /\ ScoreGe(last.ret.score, s)
                       /\ j < k => ScoreGt(last.ret.score, s)

\* C17: two keywords of different trends share the largest score and the
\* earlier one was returned
C17_Witness ==
    /\ FoundCall
    /\ last.ret.hit
    /\ \E k, j \in Keys :
          /\ k < j
          /\ last.keyword_map[k].key = last.ret.keyword
          /\ last.keyword_map[j].trend.id # last.ret.trend.id
          /\ \E s \in Accepted(j) : SameScore(s, last.ret.score)

\* the keywords of the map whose normalized form is inside the normalized name
Inside == {k \in Keys : Contains(_clean_for_matching(last.coin.name),
                                  _clean_for_matching(last.keyword_map[k].key))}

\* C18: when the normalized form of a keyword of the map is inside the
\* normalized name, that keyword alone scores 95, and _find_match returns a
\* match with a score of at least 95, at every threshold.
C18_SubstringDominates ==
    (FoundCall /\ Inside # {}) =>
        /\ \A k \in Inside :
              _find_match(last.coin.name, last.coin.symbol,
                          <<last.keyword_map[k]>>, last.threshold)
                 = Match(last.keyword_map[k], Score(95))
        /\ last.ret.hit
        /\ ScoreGe(last.ret.score, Score(95))
        /\ last.threshold \in 30..90

\* C18: at the threshold 90 a keyword inside the name won with 95 over a
\* keyword of the map that is not inside the name
C18_Witness ==
    /\ FoundCall
    /\ last.threshold = 90
    /\ Inside # {}
    /\ Keys \ Inside # {}
    /\ last.ret.hit
    /\ SameScore(last.ret.score, Score(95))
    /\ \E k \in Inside : last.keyword_map[k].key = last.ret.keyword

TestedCall == last.op = "test_match"
Returned == 1..Len(last.ret)

\* the production rules that can be applied to a name alone
ProductionAccepts(key, name, threshold) ==
    RuleA(key, name) \/ AcceptC(key, name, threshold) \/ AcceptD(key, name, threshold)

\* the best of the three ratios of test_match
BestRatio(key, name) ==
    BestOf({RatioC(key, name), RatioD(key, name),
            Ratio(_clean_for_matching(key), _clean_for_matching(name))})

\* C20: every candidate test_match returns has would_match exactly when
\* the production rules accept its keyword for the name at the current
\* threshold, and the keywords returned are exactly those whose best ratio
\* is at least the threshold minus 10.
C20_WouldMatchIsProduction ==
    TestedCall =>
        /\ \A i \in Returned :
              last.ret[i].would_match
                 <=> ProductionAccepts(last.ret[i].keyword, last.coin_name,
                                       last.threshold)
        /\ {last.ret[i].keyword : i \in Returned}
              = {last.keyword_map[k].key : k \in
                    {j \in Keys :
                        ScoreGe(BestRatio(last.keyword_map[j].key, last.coin_name),
                                Score(last.threshold - 10))}}

-----------------------------------------------------------------------------
(* The not-found contract of both stores *)

\* C12: update_trend, deactivate_trend and delete_trend called with an id
\* that no stored trend has, and delete_coin called with an id that no
\* stored coin has, return null or false and leave both persisted documents
\* as they were.
C12_UnknownIdChangesNothing ==
    [][/\ (last'.op = "update_trend" /\ last'.trend_id \notin Ids(db))
            => (last'.ret = [found |-> FALSE] /\ db' = db /\ coin_db' = coin_db)
       /\ (last'.op \in {"deactivate_trend", "delete_trend"}
           /\ last'.trend_id \notin Ids(db))
            => (last'.ret = FALSE /\ db' = db /\ coin_db' = coin_db)
       /\ (last'.op = "delete_coin" /\ last'.coin_id \notin CoinIds(coin_db))
            => (last'.ret = FALSE /\ db' = db /\ coin_db' = coin_db)]_vars

\* C12: delete_coin was called with an unknown id while both stores held
\* records, one of them analysed
C12_Witness ==
    /\ last.op = "delete_coin"
    /\ last.coin_id \notin CoinIds(coin_db)
    /\ ~last.ret
    /\ coin_db.coins # <<>>
    /\ coin_db.meta_analysis # <<>>
    /\ db.trends # <<>>

-----------------------------------------------------------------------------
(* The analysis cache of the coin ledger, stated on the persisted document *)

Coins == 1..Len(coin_db.coins)
Entries == 1..Len(coin_db.meta_analysis)
StoredNarratives == {coin_db.coins[k].narrative : k \in Coins}
RecordsOf(narrative) == {k \in Coins : coin_db.coins[k].narrative = narrative}
\* the records of the narrative whose peak parsed to a positive number
ValidOf(narrative) ==
    {k \in RecordsOf(narrative) : coin_db.coins[k].peak_mcap_numeric.num > 0}
Peak(k) == coin_db.coins[k].peak_mcap_numeric
EntryOf(narrative) ==
    coin_db.meta_analysis[CHOOSE e \in Entries :
                             coin_db.meta_analysis[e].key = narrative].value

\* C14: the persisted meta_analysis is what a recompute over the persisted
\* coins yields, it has exactly one entry for every narrative that has a
\* coin record, and the count of an entry is the number of records of its
\* narrative, whatever their peak_mcap parsed to.
C14_EntryPerNarrative ==
    /\ _update_meta_analysis(coin_db) = coin_db
    /\ {coin_db.meta_analysis[e].key : e \in Entries} = StoredNarratives
    /\ Len(coin_db.meta_analysis) = Cardinality(StoredNarratives)
    /\ \A e \in Entries :
          coin_db.meta_analysis[e].value.count
             = Cardinality(RecordsOf(coin_db.meta_analysis[e].key))

\* the value v stands at index i (from 0) of the ascending order of the
\* valid peaks of the narrative
StandsAt(v, i, narrative) ==
    /\ \E k \in ValidOf(narrative) : Peak(k) = v
    /\ Cardinality({k \in ValidOf(narrative) : FracLt(Peak(k), v)}) <= i
    /\ i < Cardinality({k \in ValidOf(narrative) : ~FracLt(v, Peak(k))})

\* C15: every narrative with n >= 1 records of positive peak_mcap_numeric
\* has an entry whose median_peak_mcap is the value at index n div 2 of the
\* ascending order of those n values, whose suggested_ceiling is the
\* formatting of that value, and min_peak_mcap <= median_peak_mcap <=
\* max_peak_mcap.
C15_UpperMedian ==
    \A narrative \in StoredNarratives :
        ValidOf(narrative) # {} =>
            /\ \E e \in Entries : coin_db.meta_analysis[e].key = narrative
            /\ StandsAt(EntryOf(narrative).median_peak_mcap,
                        Cardinality(ValidOf(narrative)) \div 2, narrative)
            /\ EntryOf(narrative).suggested_ceiling
                  = _format_mcap(EntryOf(narrative).median_peak_mcap)
            /\ ~FracLt(EntryOf(narrative).median_peak_mcap,
                       EntryOf(narrative).min_peak_mcap)
            /\ ~FracLt(EntryOf(narrative).max_peak_mcap,
                       EntryOf(narrative).median_peak_mcap)

\* C15: a narrative holds the four peaks 100, 200, 300 and 400, and one
\* record that did not parse; its median is 300 and its ceiling "$300"
C15_Witness ==
    \E narrative \in StoredNarratives :
        /\ {Peak(k) : k \in ValidOf(narrative)}
              = {Frac(100, 1), Frac(200, 1), Frac(300, 1), Frac(400, 1)}
        /\ Cardinality(ValidOf(narrative)) = 4
        /\ EntryOf(narrative).median_peak_mcap = Frac(300, 1)
        /\ EntryOf(narrative).suggested_ceiling = <<"$", "3", "0", "0">>

-----------------------------------------------------------------------------
(* The readers of the trend store *)

Stored == 1..Len(db.trends)
Priority(k) == db.trends[k].priority
\* the stored trends a listing covers
Listed(active_only) == {k \in Stored : active_only => db.trends[k].active}
\* trend j comes before trend k: higher priority, or the same and stored earlier
Before(j, k) == Priority(j) > Priority(k) \/ (Priority(j) = Priority(k) /\ j < k)
Rank(k, listed) == 1 + Cardinality({j \in listed : Before(j, k)})

\* C21: get_all_trends returns each stored trend (each active one when
\* active_only is set) exactly once, at the place that the order by
\* non-increasing priority, then stored position, gives it, and the call
\* leaves the persisted document as it was.
C21_ListingStableByPriority ==
    /\ [](last.op = "get_all_trends" =>
            /\ Len(last.ret) = Cardinality(Listed(last.active_only))
            /\ \A k \in Listed(last.active_only) :
                  last.ret[Rank(k, Listed(last.active_only))] = db.trends[k])
    /\ [][last'.op = "get_all_trends" => db' = db /\ now' = now]_vars

\* C21: the listing holds two trends of one priority that are stored after
\* a trend of lower priority
C21_Witness ==
    /\ last.op = "get_all_trends"
    /\ \E i, j, k \in Listed(last.active_only) :
          /\ i < j /\ j < k
          /\ Priority(i) < Priority(j)
          /\ Priority(j) = Priority(k)
    /\ last.ret # db.trends

\* the stored position that update_trend acts on: the first with the id
Target(trend_id) ==
    CHOOSE k \in Stored :
        db.trends[k].id = trend_id /\ \A j \in 1..(k - 1) : db.trends[j].id # trend_id

\* C22: update_trend on a stored id gives the first record of that id the
\* supplied values of the keys it already has and no new key, stamps its
\* updated_at with the time of the call, returns it, and leaves the other
\* trends, the length and order of the list and the match log as they were.
C22_UpdateOverwritesKnownKeys ==
    [][(last'.op = "update_trend" /\ last'.trend_id \in Ids(db)) =>
          /\ now' = now + 1
          /\ Len(db'.trends) = Len(db.trends)
          /\ \A j \in Stored \ {Target(last'.trend_id)} : db'.trends[j] = db.trends[j]
          /\ DOMAIN db'.trends[Target(last'.trend_id)]
                = DOMAIN db.trends[Target(last'.trend_id)]
          /\ \A f \in DOMAIN db.trends[Target(last'.trend_id)] \ {"updated_at"} :
                db'.trends[Target(last'.trend_id)][f]
                   = IF f \in DOMAIN last'.kwargs THEN last'.kwargs[f]
                     ELSE db.trends[Target(last'.trend_id)][f]
          /\ db'.trends[Target(last'.trend_id)].updated_at = now'
          /\ db'.matched_coins = db.matched_coins
          /\ last'.ret = [found |-> TRUE, trend |-> db'.trends[Target(last'.trend_id)]]
      ]_vars

\* C22: a key of the record and a key it does not have were supplied for
\* the second of two stored trends
C22_Witness ==
    /\ last.op = "update_trend"
    /\ last.ret.found
    /\ "description" \in DOMAIN last.kwargs
    /\ "colour" \in DOMAIN last.kwargs
    /\ Len(db.trends) = 2
    /\ db.trends[2] = last.ret.trend
    /\ db.trends[2].description = last.kwargs.description

Active == {k \in Stored : db.trends[k].active}
\* the keyword and the aliases of a stored trend, as written
StringsOf(k) ==
    {db.trends[k].keyword}
    \cup {db.trends[k].aliases[i] : i \in 1..Len(db.trends[k].aliases)}
ActiveStrings == UNION {StringsOf(k) : k \in Active}

RECURSIVE CountStrings(_)
CountStrings(trends) ==
    IF trends = {} THEN 0
    ELSE LET k == CHOOSE x \in trends : TRUE
         IN  1 + Len(db.trends[k].aliases) + CountStrings(trends \ {k})

\* the query is inside the keyword, the description or an alias of the
\* stored trend, letter case aside
Found(k, query) ==
    \/ Contains(Lower(db.trends[k].keyword), Lower(query))
    \/ Contains(Lower(db.trends[k].description), Lower(query))
    \/ \E s \in StringsOf(k) : Contains(Lower(s), Lower(query))

\* C23: get_all_keywords returns the keyword and the aliases of the active
\* trends and nothing else; the keys of get_keyword_to_trend_map are these
\* strings in lower case, each mapped to an active trend that carries it;
\* search_trends(query) returns exactly the stored trends, active or not,
\* whose keyword, description or an alias contains the query, letter case
\* aside.  An inactive trend is thus in neither of the first two and can be
\* in the third.
C23_CorpusActiveSearchAll ==
    /\ last.op = "get_all_keywords" =>
          /\ {last.ret[i] : i \in 1..Len(last.ret)} = ActiveStrings
          /\ Len(last.ret) = CountStrings(Active)
    /\ last.op = "get_keyword_to_trend_map" =>
          /\ {last.ret[i].key : i \in 1..Len(last.ret)} = {Lower(x) : x \in ActiveStrings}
          /\ \A i, j \in 1..Len(last.ret) : last.ret[i].key = last.ret[j].key => i = j
          /\ \A i \in 1..Len(last.ret) :
                \E k \in Active : /\ last.ret[i].trend = db.trends[k]
                                  /\ \E x \in StringsOf(k) : Lower(x) = last.ret[i].key
    /\ last.op = "search_trends" =>
          /\ {last.ret[i] : i \in 1..Len(last.ret)}
                = {db.trends[k] : k \in {j \in Stored : Found(j, last.query)}}
          /\ Len(last.ret) = Cardinality({j \in Stored : Found(j, last.query)})

\* C23: a search by a word that only the description has, in another
\* letter case, returned a deactivated trend whose keyword is not in the
\* matching corpus any more
C23_Witness ==
    /\ last.op = "search_trends"
    /\ last.query = <<"b">>
    /\ Len(last.ret) = 1
    /\ ~last.ret[1].active
    /\ ~Contains(Lower(last.ret[1].keyword), <<"b">>)
    /\ Contains(last.ret[1].description, <<"B">>)
    /\ last.ret[1].keyword \notin ActiveStrings

-----------------------------------------------------------------------------
(* Colliding keys of the keyword map *)

\* the active trends that carry the key as keyword or alias, in any case
Carriers(key) == {k \in Active : \E x \in StringsOf(k) : Lower(x) = key}
\* the carrier that a listing returns last, and the one it returns first
Latest(key) == CHOOSE k \in Carriers(key) : \A j \in Carriers(key) : j = k \/ Before(j, k)
Earliest(key) == CHOOSE k \in Carriers(key) : \A j \in Carriers(key) : j = k \/ Before(k, j)
\* the first place of the key among the strings of a trend: 0 is the
\* keyword, i the i-th alias
PlaceIn(k, key) ==
    IF Lower(db.trends[k].keyword) = key THEN 0
    ELSE CHOOSE i \in 1..Len(db.trends[k].aliases) :
            /\ Lower(db.trends[k].aliases[i]) = key
            /\ \A j \in 1..(i - 1) : Lower(db.trends[k].aliases[j]) # key
\* key a is inserted for the first time before key b
KeyBefore(a, b) ==
    \/ Before(Earliest(a), Earliest(b))
    \/ Earliest(a) = Earliest(b) /\ PlaceIn(Earliest(a), a) < PlaceIn(Earliest(b), b)

\* C24: a key of the keyword map that several active trends carry maps to
\* the carrier that comes last in the listing order (lower priority, or
\* stored later at equal priority); the keys stand in the order of their
\* first insertion; and a match that _find_match reports on a key names
\* that last carrier as its trend.
C24_LaterCarrierOwnsKey ==
    /\ last.op = "get_keyword_to_trend_map" =>
          /\ \A i \in 1..Len(last.ret) :
                last.ret[i].trend = db.trends[Latest(last.ret[i].key)]
          /\ \A i, j \in 1..Len(last.ret) :
                i < j => KeyBefore(last.ret[i].key, last.ret[j].key)
    /\ (last.op = "find_match" /\ last.ret.hit) =>
          last.ret.trend = db.trends[Latest(last.ret.keyword)]

\* C24: a match was reported on a key that two different active trends
\* carry, and the trend named is the one of lower priority, though the
\* key was inserted first for the other one
C24_Witness ==
    /\ last.op = "find_match"
    /\ last.ret.hit
    /\ \E j, k \in Carriers(last.ret.keyword) :
          /\ Priority(j) > Priority(k)
          /\ db.trends[j].id # db.trends[k].id
          /\ last.ret.trend = db.trends[k]
          /\ last.keyword_map[1].key = last.ret.keyword

-----------------------------------------------------------------------------
(* Deleting a coin record *)

\* the stored records that a delete of the id keeps
Kept(coin_id) == {k \in Coins : coin_db.coins[k].id # coin_id}
\* the narratives that have an entry in a persisted analysis
Analysed(d) == {d.meta_analysis[e].key : e \in 1..Len(d.meta_analysis)}

\* C26: delete_coin returns true exactly when a stored record has the id.
\* It then leaves exactly the records of other ids, each as it was and in
\* the stored order, and the persisted meta_analysis is the analysis of the
\* records that remain, so that only narratives that still have a record
\* have an entry.  When it returns false the document is unchanged.
C26_DeleteRemovesAndRecomputes ==
    [][last'.op = "delete_coin" =>
         /\ last'.ret = (Kept(last'.coin_id) # Coins)
         /\ Len(coin_db'.coins) = Cardinality(Kept(last'.coin_id))
         /\ \A k \in Kept(last'.coin_id) :
               coin_db'.coins[1 + Cardinality({j \in Kept(last'.coin_id) : j < k})]
                  = coin_db.coins[k]
         /\ last'.ret => /\ _update_meta_analysis(coin_db') = coin_db'
                         /\ Analysed(coin_db')
                               \subseteq {coin_db'.coins[k].narrative :
                                             k \in 1..Len(coin_db'.coins)}
         /\ ~last'.ret => coin_db' = coin_db]_vars

\* C26: a delete removed the last record of a narrative that had an entry
\* in the analysis, other records remain, and the entry is gone
C26_Witness ==
    /\ last.op = "delete_coin"
    /\ last.ret
    /\ coin_db.coins # <<>>
    /\ \E n \in Analysed(last.before) :
          /\ n \notin Analysed(coin_db)
          /\ \A k \in Coins : coin_db.coins[k].narrative # n

-----------------------------------------------------------------------------
(* The average time to peak *)

Hours(k) == coin_db.coins[k].time_to_peak_hours
\* the records of the narrative whose time to peak parsed to a positive number
TimedOf(narrative) == {k \in RecordsOf(narrative) : Hours(k).num > 0}

RECURSIVE SumHours(_)
SumHours(records) ==
    IF records = {} THEN Zero
    ELSE LET k == CHOOSE x \in records : TRUE
         IN  FracAdd(Hours(k), SumHours(records \ {k}))

Unknown == <<"u", "n", "k", "n", "o", "w", "n">>

\* C27: in every entry of the analysis, avg_time_to_peak_hours times the
\* number of records of the narrative with time_to_peak_hours > 0 is the
\* sum of their hours when there is such a record; the average is 0 and
\* suggested_hold_time is "unknown" exactly when there is none.
C27_AverageOverTimedRecords ==
    \A e \in Entries :
        LET narrative == coin_db.meta_analysis[e].key
            value == coin_db.meta_analysis[e].value
        IN  /\ TimedOf(narrative) # {} =>
                  FracTimes(value.avg_time_to_peak_hours, Cardinality(TimedOf(narrative)))
                     = SumHours(TimedOf(narrative))
            /\ (value.avg_time_to_peak_hours = Zero) = (TimedOf(narrative) = {})
            /\ (value.suggested_hold_time = Unknown) = (TimedOf(narrative) = {})

\* C27: a narrative has three records, of 24 hours, 12 hours and a time
\* that did not parse; its average is 18 hours
C27_Witness ==
    \E narrative \in StoredNarratives :
        /\ Cardinality(RecordsOf(narrative)) = 3
        /\ {Hours(k) : k \in RecordsOf(narrative)} = {Frac(24, 1), Frac(12, 1), Zero}
        /\ \E e \in Entries : coin_db.meta_analysis[e].key = narrative
        /\ EntryOf(narrative).avg_time_to_peak_hours = Frac(18, 1)
        /\ EntryOf(narrative).suggested_hold_time = <<"1", "8", " ", "h", "o", "u", "r", "s">>

-----------------------------------------------------------------------------
(* The narrative key of the coin ledger *)

\* stored is the narrative n in lower case with "_" for every blank
Normal(n, stored) ==
    /\ Len(stored) = Len(n)
    /\ \A k \in 1..Len(n) :
          stored[k] = (IF n[k] = " " THEN "_" ELSE LowerChar(n[k]))

\* the stored records that belong to the narrative a reader is asked for
AskedFor(n) == {k \in Coins : n # <<>> => Normal(n, coin_db.coins[k].narrative)}

\* C30: add_coin stores the name in upper case and the narrative in lower
\* case with underscores for blanks; get_all_coins(n) returns exactly the
\* stored records whose narrative is n normalized the same way, newest
\* first, hence every record added under n for as long as it is stored;
\* get_meta_analysis(n) returns the entry of the normalized n; and
\* normalizing a stored narrative gives the stored narrative.
C30_NarrativeNormalized ==
    /\ last.op = "add_coin" =>
          /\ last.ret.name = <<"A", "I">>
          /\ Normal(last.narrative, last.ret.narrative)
          /\ coin_db.coins[Len(coin_db.coins)] = last.ret
    /\ last.op = "get_all_coins" =>
          /\ {last.ret[i] : i \in 1..Len(last.ret)}
                = {coin_db.coins[k] : k \in AskedFor(last.narrative)}
          /\ Len(last.ret) = Cardinality(AskedFor(last.narrative))
          /\ \A i, j \in 1..Len(last.ret) :
                i < j => last.ret[i].recorded_at >= last.ret[j].recorded_at
    /\ (last.op = "get_meta_analysis" /\ last.narrative # <<>>) =>
          /\ Len(last.ret) <= 1
          /\ {last.ret[i] : i \in 1..Len(last.ret)}
                = {coin_db.meta_analysis[e] :
                      e \in {x \in Entries :
                                Normal(last.narrative, coin_db.meta_analysis[x].key)}}
    /\ \A k \in Coins :
          Underscore(Lower(coin_db.coins[k].narrative)) = coin_db.coins[k].narrative

\* C30: asked for "A i", get_all_coins returned the two records stored as
\* "a_i", one of them added as "a_i" and one as "A i", the newer first, and
\* left out the record of another narrative
C30_Witness ==
    /\ last.op = "get_all_coins"
    /\ last.narrative = <<"A", " ", "i">>
    /\ Len(last.ret) = 2
    /\ Len(coin_db.coins) = 3
    /\ last.ret[1].narrative = <<"a", "_", "i">>
    /\ last.ret[1].recorded_at > last.ret[2].recorded_at
    /\ last.ret[1].peak_mcap # last.ret[2].peak_mcap

-----------------------------------------------------------------------------
(* The parsers of the coin ledger *)

\* the text of a magnitude in upper case, without "$" and ",", stripped
Cleaned(text) == Strip(Remove(Remove(Upper(text), "$"), ","))

SuffixChars == {Multipliers[k].suffix : k \in 1..Len(Multipliers)}
MultOf(suffix) ==
    Multipliers[CHOOSE k \in 1..Len(Multipliers) : Multipliers[k].suffix = suffix].mult

\* the number before a trailing K, M or B times the multiplier of the
\* letter, else the whole text as a number; 0 where the number does not parse
TrailingSuffixValue(c) ==
    IF c # <<>> /\ c[Len(c)] \in SuffixChars
    THEN FloatTimesOrZero(SubSeq(c, 1, Len(c) - 1), MultOf(c[Len(c)]))
    ELSE FloatTimesOrZero(c, 1)

\* C28: _parse_mcap returns, for every text, the number before a trailing
\* K, M or B of the cleaned text times 1e3, 1e6 or 1e9, without such a
\* letter the cleaned text as a plain number, and 0 where that number does
\* not parse.
C28_TrailingSuffixOnly ==
    last.op = "_parse_mcap" => last.ret = TrailingSuffixValue(Cleaned(last.mcap_str))

\* the examples of the documentation come out as documented
C28_Examples ==
    /\ _parse_mcap(<<"5", "0", "0", "M">>) = Frac(500000000, 1)
    /\ _parse_mcap(<<"1", ".", "2", "B">>) = Frac(1200000000, 1)
    /\ _parse_mcap(<<"5", "0", "K">>) = Frac(50000, 1)
    /\ _parse_mcap(<<"$", "1", ",", "0", "0", "0">>) = Frac(1000, 1)
    /\ _parse_mcap(<<"a", "b", "c">>) = Zero


\* a decimal number as the parser reads it: digits, then at most one
\* point, then digits
NumberShape(number) ==
    /\ number # <<>>
    /\ IsDigit(number[1])
    /\ \A p \in 1..Len(number) : IsDigit(number[p]) \/ number[p] = "."
    /\ Cardinality({p \in 1..Len(number) : number[p] = "."}) <= 1

UnitLetters == {"h", "d", "w", "m"}

\* in s the number s[i..j] is followed by blanks, or nothing, and then by
\* the unit letter s[k]
PlaceAt(s, i, j, k) ==
    /\ i <= j /\ j < k
    /\ NumberShape(SubSeq(s, i, j))
    /\ \A p \in (j + 1)..(k - 1) : s[p] = " "
    /\ s[k] \in UnitLetters

Places(s) ==
    {i \in 1..Len(s) : \E j, k \in 1..Len(s) : PlaceAt(s, i, j, k)}

\* the hours that the place at i stands for
InHours(number, unit) ==
    CASE unit = "h" -> number
      [] unit = "d" -> Frac(number.num * 24, number.den)
      [] unit = "w" -> Frac(number.num * 168, number.den)
      [] unit = "m" -> Frac(number.num, number.den * 60)

ValueAt(s, i) ==
    LET j == CHOOSE j \in 1..Len(s) : \E k \in 1..Len(s) : PlaceAt(s, i, j, k)
        k == CHOOSE k \in 1..Len(s) : PlaceAt(s, i, j, k)
    IN  InHours(NumeralValue(SubSeq(s, i, j)), s[k])

Leftmost(places) == CHOOSE i \in places : \A j \in places : i <= j

\* C29 as stated: _parse_time_to_hours returns the hours of a number with a
\* unit only when the text, in lower case and stripped, begins with them,
\* and 0 for every other text.
C29_LeadingNumberOnly ==
    last.op = "_parse_time_to_hours" =>
        last.ret = (IF 1 \in Places(Strip(Lower(last.time_str)))
                    THEN ValueAt(Strip(Lower(last.time_str)), 1)
                    ELSE Zero)

\* C29, amended: _parse_time_to_hours returns the hours of the leftmost
\* place of the text, in lower case and stripped, where a decimal number is
\* followed, after blanks or none, by h, d, w or m (a day is 24 hours, a
\* week 168, a minute 1/60), and 0 when the text has no such place.
C29_LeftmostNumberWithUnit ==
    last.op = "_parse_time_to_hours" =>
        last.ret = (IF Places(Strip(Lower(last.time_str))) # {}
                    THEN ValueAt(Strip(Lower(last.time_str)),
                                 Leftmost(Places(Strip(Lower(last.time_str)))))
                    ELSE Zero)

\* C29: a text that begins with a letter and goes on with a number of days
\* was parsed to the hours of those days
C29_Witness ==
    /\ last.op = "_parse_time_to_hours"
    /\ last.time_str = <<"a", "3", "d">>
    /\ last.ret = Frac(72, 1)

\* the examples of the documentation come out as documented
C29_Examples ==
    /\ _parse_time_to_hours(<<"3", " ", "d", "a", "y", "s">>) = Frac(72, 1)
    /\ _parse_time_to_hours(<<"1", "2", " ", "h", "o", "u", "r", "s">>) = Frac(12, 1)
    /\ _parse_time_to_hours(<<"1", " ", "w", "e", "e", "k">>) = Frac(168, 1)
    /\ _parse_time_to_hours(<<"3", "0", " ", "m", "i", "n">>) = Frac(1, 2)
    /\ _parse_time_to_hours(<<"g", "a", "r", "b", "a", "g", "e">>) = Zero

-----------------------------------------------------------------------------
(* Two engines on one trend store *)

\* the step was taken by the second engine
PeerOps ==
    {"peer_start", "peer_stop", "peer_adjust_threshold", "peer_wake", "peer_poll",
     "peer_metadata"}
\* the step was taken by the first engine
OwnOps == {"start", "stop", "adjust_threshold", "wake", "poll", "callback"}

\* C25: a step of one engine (start, stop, adjust_threshold, a wake-up, the
\* processing of a response) leaves the seen-set, the running flag and
\* MATCH_THRESHOLD of the other engine as they were, though both record
\* into one trend store; and the second engine, given an entity, skips it
\* exactly when its own seen-set holds the address, whatever the seen-set
\* of the first engine holds, and has the address in its own set afterwards.
C25_EnginesIsolated ==
    [][/\ last'.op \in PeerOps =>
              /\ seen_coins' = seen_coins
              /\ running' = running
              /\ MATCH_THRESHOLD' = MATCH_THRESHOLD
       /\ last'.op \in OwnOps =>
              /\ peer'.seen_coins = peer.seen_coins
              /\ peer'.running = peer.running
              /\ peer'.MATCH_THRESHOLD = peer.MATCH_THRESHOLD
              /\ last'.op \in {"poll", "callback"} => last'.skipped \subseteq seen_coins'
       /\ (last'.op = "peer_poll" /\ last'.coins # <<>> /\ last'.error # "read") =>
              /\ (last'.coins[1].mint \in last'.skipped)
                    = (last'.coins[1].mint \in peer.seen_coins)
              /\ last'.coins[1].mint \in peer'.seen_coins
              /\ peer'.seen_coins = peer.seen_coins \cup {last'.coins[1].mint}]_vars

\* C25: the second engine matched and recorded an entity whose address the
\* first engine had in its seen-set and the second one had not, while the
\* two engines differ in running flag and threshold
C25_Witness ==
    /\ last.op = "peer_poll"
    /\ last.m.hit
    /\ last.m.recorded
    /\ last.m.coin.mint \in seen_coins
    /\ last.skipped = {}
    /\ running # peer.running
    /\ MATCH_THRESHOLD = 90
    /\ peer.MATCH_THRESHOLD = 45

-----------------------------------------------------------------------------
(* The seen-set over the life of an engine *)

\* C36: the seen-set of the engine only grows: every step leaves it a
\* superset of what it was, start(), stop(), adjust_threshold and a wake-up
\* leave it as it was, and what a processing step skipped is in it.
C36_SeenSetGrows ==
    [][/\ seen_coins \subseteq seen_coins'
       /\ last'.op \in {"start", "stop", "adjust_threshold", "wake"} =>
              seen_coins' = seen_coins
       /\ last'.op \in EngineSteps => last'.skipped \subseteq seen_coins']_vars

\* C36: start() was called again after the first loop had ended on stop(),
\* and the addresses that loop had observed are still in the seen-set
C36_Witness ==
    /\ last.op = "start"
    /\ last.task = 2
    /\ task[1].pc = "done"
    /\ running
    /\ seen_coins # {}
    /\ \E a \in seen_coins : rm_calls[a] = 1


\* C32: an address is in the seen-set before the match algorithm,
\* record_match or on_match run for its entity; when record_match or
\* on_match raised for an entity its address is in the seen-set after the
\* step; and once record_match has been called for an address, raising or
\* not, no later step calls record_match or on_match for it.
C32_FailedStepNotRetried ==
    /\ [](\A a \in Mints :
            (fm_calls[a] >= 1 \/ rm_calls[a] >= 1 \/ cb_calls[a] >= 1) => a \in seen_coins)
    /\ [][/\ (last'.op \in EngineSteps /\ last'.error = "record_match") =>
                 /\ last'.m.coin.mint \in seen_coins'
                 /\ ~last'.m.recorded
          /\ (last'.op = "callback" /\ last'.error = "on_match") =>
                 task[last'.task].coins[1].mint \in seen_coins'
          /\ \A a \in Mints :
                 rm_calls[a] >= 1 =>
                    /\ rm_calls'[a] = rm_calls[a]
                    /\ cb_calls'[a] = cb_calls[a]]_vars

\* C32: record_match had raised for an entity, so that on_match was never
\* called for it, and a later step skipped its address
C32_Witness ==
    /\ last.op \in EngineSteps
    /\ on_match
    /\ \E a \in last.skipped : rm_calls[a] = 1 /\ cb_calls[a] = 0


\* the step taken is a step of task l on the given path that raised
RaisedOn(l, path) ==
    /\ last'.op \in EngineSteps
    /\ last'.task = l
    /\ last'.error # "none"
    /\ task[l].path = path

\* C37 as stated: in Helius mode every exception raised while a Helius
\* response is fetched and processed, by the DAS request or by the enhanced
\* transactions request that stands in for it, is followed by the fallback
\* fetch-and-process in the same cycle.
C37_AnyHeliusExceptionFallsBack ==
    [][\A l \in Tasks :
          (RaisedOn(l, "helius") \/ RaisedOn(l, "enhanced")) =>
              task'[l] = Fetching("fallback")]_vars

\* C37, amended: an exception raised while the DAS response is fetched and
\* processed (record_match and on_match included) is followed by the
\* fallback fetch in the same cycle; one raised on the enhanced
\* transactions path is caught there and the engine sleeps without a
\* fallback; a fallback fetch is started by a step only after such an
\* exception and is never followed by another fetch before the sleep; and a
\* step that raised has added to the seen-set only addresses that it had
\* run through the match algorithm, so the entities it did not reach are
\* not added.
C37_DasExceptionFallsBackOnce ==
    [][\A l \in Tasks :
          /\ RaisedOn(l, "helius") => task'[l] = Fetching("fallback")
          /\ RaisedOn(l, "enhanced") => task'[l] = Sleeping
          /\ RaisedOn(l, "fallback") => task'[l] = Sleeping
          /\ (last'.op \in EngineSteps /\ last'.task = l) =>
                /\ task[l].path = "fallback" => task'[l].pc \in {"cb", "sleep"}
                /\ task'[l] = Fetching("fallback") =>
                       (task[l].path = "helius" /\ last'.error # "none")
                /\ last'.error # "none" =>
                       \A a \in seen_coins' \ seen_coins :
                           fm_calls'[a] = fm_calls[a] + 1]_vars

\* C37: record_match has raised while a DAS batch was processed, the
\* fallback fetch is under way, and an address is still outside the seen-set
C37_Witness ==
    /\ HELIUS_API_KEY = "set"
    /\ last.op = "poll"
    /\ last.error = "record_match"
    /\ task[last.task] = Fetching("fallback")
    /\ Mints \ seen_coins # {}
    /\ seen_coins # {}


\* the addresses of the entities that carry no name at all
Unnamed == {e.mint : e \in {x \in NamelessEntities : x.name = <<>>}}

\* the keyword map a step of task l works with: read from the store when the
\* response arrives, kept by the loop afterwards
MapOfStep(l) ==
    IF last'.op = "poll" THEN get_keyword_to_trend_map(db) ELSE task[l].keyword_map

\* the step handled address a as a match of the first key of the map at 95
FirstKeyMatch(l, a) ==
    /\ last'.m.hit
    /\ last'.m.coin.mint = a
    /\ last'.m.keyword = MapOfStep(l)[1].key
    /\ last'.m.trend = MapOfStep(l)[1].trend
    /\ last'.m.score = Score(95)
    /\ rm_calls'[a] = rm_calls[a] + 1
    /\ last'.error = "none" =>
          /\ last'.m.recorded
          /\ last'.m.logged
          /\ cb_calls'[a] = cb_calls[a] + 1
          /\ task'[l].pc = "cb"

\* _find_match on a name that is empty once cleaned, or with a key that is
\* empty once cleaned in the map
EmptyStringMatches(coin, keyword_map, ret) ==
    /\ (_clean_for_matching(coin.name) = <<>> /\ keyword_map # <<>>) =>
          /\ ret.hit
          /\ ret.score = Score(95)
          /\ ret.keyword = keyword_map[1].key
          /\ ret.trend = keyword_map[1].trend
    /\ (\E k \in 1..Len(keyword_map) : _clean_for_matching(keyword_map[k].key) = <<>>) =>
          /\ ret.hit
          /\ ScoreGe(ret.score, Score(95))
    /\ keyword_map = <<>> => ~ret.hit

\* C33: the substring rule holds whenever the cleaned name or a cleaned key
\* is empty, so _find_match returns the first key of a non-empty map at 95
\* for a name that is empty once cleaned; on the frontend API path every
\* entity newly added to the seen-set, nameless ones included, is run
\* through the match algorithm and, when the map is not empty, recorded as
\* a match of the first key at 95 with the callback awaited; on the two
\* Helius paths an entity without a name is added to the seen-set and
\* neither matched, recorded nor reported.
C33_EmptyNameMatchesFirstKeyword ==
    [][/\ last'.op = "find_match" =>
             EmptyStringMatches(last'.coin, last'.keyword_map, last'.ret)
       /\ \A l \in Tasks :
            (last'.op \in EngineSteps /\ last'.task = l) =>
               /\ task[l].path = "fallback" =>
                     \A a \in seen_coins' \ seen_coins :
                        /\ fm_calls'[a] = fm_calls[a] + 1
                        /\ MapOfStep(l) # <<>> => FirstKeyMatch(l, a)
               /\ task[l].path \in {"helius", "enhanced"} =>
                     \A a \in Unnamed :
                        /\ fm_calls'[a] = fm_calls[a]
                        /\ rm_calls'[a] = rm_calls[a]
                        /\ cb_calls'[a] = cb_calls[a]
                        /\ last'.m.hit => last'.m.coin.mint # a]_vars

\* C33: an entity without a name has been matched on the frontend API path,
\* recorded at score 95, and its callback is awaited
C33_Witness ==
    /\ last.op \in EngineSteps
    /\ task[1].path = "fallback"
    /\ task[1].pc = "cb"
    /\ last.m.hit
    /\ last.m.coin.name = <<>>
    /\ last.m.recorded
    /\ last.m.score = Score(95)
    /\ cb_calls[last.m.coin.mint] = 1

\* an entity without a name is in the seen-set after a Helius pass and the
\* match algorithm was never called for it
SkippedUnnamed ==
    /\ HELIUS_API_KEY = "set"
    /\ \E a \in Unnamed \cap seen_coins : fm_calls[a] = 0


\* the stored trends one of whose aliases equals this keyword when both are
\* lower-cased
AliasConflicts(d, keyword) ==
    {k \in 1..Len(d.trends) :
        \E n \in 1..Len(d.trends[k].aliases) :
            Lower(d.trends[k].aliases[n]) = Lower(keyword)}

\* C35: with add_trend, deactivate_trend, delete_trend and record_match as
\* the only writers, no two stored trends have keywords that are equal when
\* lower-cased; add_trend is rejected, and changes nothing, exactly when a
\* stored trend, active or not, has such a keyword, so the keyword of a
\* deactivated trend is free again only once the trend is deleted, and the
\* aliases of the stored trends play no part.
C35_KeywordsStayUnique ==
    /\ [](\A i, j \in 1..Len(db.trends) :
            i # j => Lower(db.trends[i].keyword) # Lower(db.trends[j].keyword))
    /\ [][last'.op = "add_trend" =>
            /\ last'.ret.error <=> Conflicts(db, last'.keyword) # {}
            /\ last'.ret.error => db' = db
            /\ ~last'.ret.error =>
                  /\ Len(db'.trends) = Len(db.trends) + 1
                  /\ db'.trends[Len(db'.trends)].keyword = last'.keyword]_vars

\* C35: add_trend was rejected because of a deactivated trend, while the
\* store holds a trend that was accepted although its keyword is an alias
\* of another stored trend
C35_Witness ==
    /\ last.op = "add_trend"
    /\ last.ret.error
    /\ ~last.ret.existing.active
    /\ \E k \in 1..Len(db.trends) : AliasConflicts(db, db.trends[k].keyword) # {}


\* the trend stored at place k of the document is still stored after the
\* step, as the record add_trend created (its later updates apart)
KeptByStep(k) ==
    \E j \in 1..Len(db'.trends) :
        /\ db'.trends[j].id = db.trends[k].id
        /\ db'.trends[j].keyword = db.trends[k].keyword
        /\ db'.trends[j].created_at = db.trends[k].created_at

\* C34: with the chat handler and the engine as tasks of one event loop,
\* which interleave at the engine's awaits only, no update is lost: an
\* add_trend that returns a new record has it at the end of the persisted
\* trend list; every step of either task keeps every stored trend, except a
\* delete_trend of its id; an engine step that got a record from
\* record_match has the entry at the end of the persisted log; and every
\* step of either task keeps the log entries written before it.
C34_NoLostUpdate ==
    [][/\ (last'.op = "add_trend" /\ ~last'.ret.error) =>
             /\ db'.trends = Append(db.trends, last'.ret.existing)
             /\ db'.matched_coins = db.matched_coins
       /\ \A k \in 1..Len(db.trends) :
             \/ KeptByStep(k)
             \/ last'.op = "delete_trend" /\ last'.trend_id = db.trends[k].id
       /\ (last'.op \in EngineSteps /\ last'.m.hit /\ last'.m.recorded) =>
             last'.m.logged
       /\ IsPrefix(db.matched_coins, db'.matched_coins)]_vars

\* C34: while the engine awaits the callback of a match it has recorded, the
\* chat handler has added a trend: the log entry and both trends are stored
C34_Witness ==
    /\ last.op = "add_trend"
    /\ ~last.ret.error
    /\ \E l \in Tasks : task[l].pc = "cb"
    /\ Len(db.trends) >= 2
    /\ \E k \in 1..Len(db.matched_coins) :
          db.matched_coins[k].matched_at < last.ret.existing.created_at


\* C31: constructing a TrendsDB or a CoinPerformanceDB writes the empty
\* document when the file is absent and leaves an existing file, parseable
\* or not, as it is; while a file is corrupted every operation that loads
\* it raises, and no step changes the file.
C31_ConstructionAndCorruption ==
    [][/\ last'.op = "TrendsDB" =>
             /\ db = AbsentFile => db' = EmptyDb
             /\ db # AbsentFile => db' = db
             /\ coin_db' = coin_db
       /\ last'.op = "CoinPerformanceDB" =>
             /\ coin_db = AbsentFile => coin_db' = EmptyCoinDb
             /\ coin_db # AbsentFile => coin_db' = coin_db
             /\ db' = db
       /\ db = CorruptFile =>
             /\ db' = CorruptFile
             /\ last'.op \in TrendsFileOps => last'.raised
       /\ coin_db = CorruptFile =>
             /\ coin_db' = CorruptFile
             /\ last'.op \in CoinsFileOps => last'.raised]_vars

\* C31: a method of a TrendsDB over a corrupted file has raised and the
\* file is still the corrupted one, while the ledger file holds a document
\* that add_coin has extended
C31_Witness ==
    /\ db = CorruptFile
    /\ last.op \in TrendsFileOps
    /\ last.raised
    /\ coin_db \notin {AbsentFile, CorruptFile}
    /\ Len(coin_db.coins) = 2

\* a store was constructed over an absent file, which now holds the empty
\* document, next to a corrupted file that a construction has left alone
InitializedNextToCorrupt ==
    /\ last.op = "CoinPerformanceDB"
    /\ last.before = AbsentFile
    /\ coin_db = EmptyCoinDb
    /\ db = CorruptFile

====
